---------------------------- MODULE Spec2Model ----------------------------
(***************************************************************************)
(* pinkmask: deterministic masking and FK-closed subsetting of a SQLite    *)
(* database.  The module models                                            *)
(*   - schema.TableOrder            (internal/schema/schema.go)            *)
(*   - subset.BuildSelection        (internal/subset/subset.go)            *)
(*   - copy.Run and its stages      (internal/copy/copy.go)                *)
(*   - copy.processRowsSequential / processRowsParallel                    *)
(* The storage engine is modelled by what its statements return: a table   *)
(* is a set of rows, a row a function from column names to cell values.    *)
(***************************************************************************)
EXTENDS Integers, Sequences, FiniteSets, TLC

(***************************************************************************)
(* Bounds of the model.                                                    *)
(***************************************************************************)
\* most rows the input database holds in one table
MaxRows == 2
\* most rounds of expandSelection's loop the model follows
MaxRounds == 8
\* most source rows of one result set handed to processRows (SpecParallel)
MaxScan == 6
\* largest worker count drawn for processRowsParallel (SpecParallel)
MaxJobs == 2

(***************************************************************************)
(* Cell values: the storage engine's dynamically typed values.  k is the   *)
(* storage class, i the integer, s the text as a sequence of characters.   *)
(***************************************************************************)
NULL == [k |-> "null", i |-> 0, s |-> <<>>]
IntV(n) == [k |-> "int", i |-> n, s |-> <<>>]
TextV(str) == [k |-> "text", i |-> 0, s |-> str]

\* The characters that occur in the model, in ascending byte order.
Alphabet ==
  << "0", "1", "2", "3", "4", "5", "6", "7", "8", "9",
     "<", ">", "A", "C", "S", "U", "i", "l", "n", "|" >>

CharCode(c) == CHOOSE n \in 1..Len(Alphabet) : Alphabet[n] = c

RECURSIVE Digits(_)
\* strconv of a non-negative integer, as fmt.Sprint prints an int64
Digits(n) ==
  IF n < 10 THEN << Alphabet[n + 1] >>
  ELSE Digits(n \div 10) \o << Alphabet[(n % 10) + 1] >>

\* fmt.Sprint(v) of a scanned cell: nil prints as <nil>, text as itself
Sprint(v) ==
  CASE v.k = "null" -> << "<", "n", "i", "l", ">" >>
    [] v.k = "int"  -> Digits(v.i)
    [] OTHER        -> v.s

RECURSIVE StrLess(_, _)
\* Go's < on strings: bytewise lexicographic
StrLess(x, y) ==
  IF y = <<>> THEN FALSE
  ELSE IF x = <<>> THEN TRUE
  ELSE IF Head(x) = Head(y) THEN StrLess(Tail(x), Tail(y))
  ELSE CharCode(Head(x)) < CharCode(Head(y))

RECURSIVE JoinBar(_)
JoinBar(parts) ==
  IF parts = <<>> THEN <<>>
  ELSE IF Len(parts) = 1 THEN parts[1]
  ELSE parts[1] \o << "|" >> \o JoinBar(Tail(parts))

\* a mutant of keyFor: the key drops all but the first value of the tuple
keyForFirstOnly(values) == IF values = <<>> THEN <<>> ELSE Sprint(values[1])

\* keyFor: the textual key of a tuple, its values' string forms joined by |
keyFor(values) == JoinBar([n \in 1..Len(values) |-> Sprint(values[n])])

(***************************************************************************)
(* Table and column names.  Names are compared as Go compares strings;     *)
(* NameOrder lists every table name of the model in that order.            *)
(***************************************************************************)
NameOrder ==
  << "a", "b", "c", "idx", "idx_orders", "orders", "p", "sqlite_autoindex", "t", "trg", "users",
     "v", "zz" >>

NameRank(name) == CHOOSE n \in 1..Len(NameOrder) : NameOrder[n] = name

NameLess(x, y) == NameRank(x) < NameRank(y)

\* sort.Strings on a set of names: the ascending sequence of its elements
RECURSIVE SortNames(_)
SortNames(S) ==
  IF S = {} THEN <<>>
  ELSE LET m == CHOOSE x \in S : \A y \in S : x = y \/ NameLess(x, y)
       IN  << m >> \o SortNames(S \ {m})

SeqToSet(q) == {q[n] : n \in 1..Len(q)}

\* sort.Strings on a slice (duplicates kept)
RECURSIVE SortStrings(_)
SortStrings(q) ==
  IF q = <<>> THEN <<>>
  ELSE LET m == CHOOSE n \in 1..Len(q) :
                  \A j \in 1..Len(q) : ~NameLess(q[j], q[n])
           rest == [j \in 1..(Len(q) - 1) |-> IF j < m THEN q[j] ELSE q[j + 1]]
       IN  << q[m] >> \o SortStrings(rest)


(***************************************************************************)
(* The state.                                                              *)
(***************************************************************************)
VARIABLES
  schema,        \* schema.Schema as loaded from the input: Tables, Views, Indexes, Triggers
  iter,          \* the order in which Go ranges over the map s.Tables
  order,         \* the result of schema.TableOrder
  opc,           \* TableOrder: "call" before the call, "ret" after it
  db,            \* the input database: table name -> set of rows
  cfg,           \* config.Config
  opts,          \* copy.Options: FKMode, Triggers, Jobs, Subset
  pc,            \* where Run is
  pragma,        \* the output connection's foreign_keys setting
  selection,     \* Selection.Sets: table name -> PKSet, for the tables that have one
  selNil,        \* Run's `selection` is nil
  changed,       \* expandSelection's `changed`
  rounds,        \* expandSelection: the rounds of `for changed` begun so far
  outTables,     \* the tables created in the output, in creation order
  ddl,           \* the CREATE TABLE statements executed on the output, in execution order
  output,        \* the output database: table name -> inserted rows, in insertion order
  ti,            \* copyData: the index in `order` of the table being copied
  pendingChunks, \* copyTable: the chunks of primary keys not yet queried
  cursor,        \* processRows: the rows of the result set not yet scanned
  transformers,  \* copyTable: the transformers of the table being copied
  post,          \* the views, indexes and triggers created in the output
  args,          \* processRowsParallel: its arguments tbl, transformers, jobs, rows
  unread,        \* processRowsParallel: the rows of the result set not yet scanned
  index,         \* processRowsParallel: `index`
  inflight,      \* processRowsParallel: `inflight`
  jobsCh,        \* the buffered channel of jobs
  jobsClosed,    \* close(jobsCh) has been executed
  resultsCh,     \* the buffered channel of results
  pending,       \* flush: the results that arrived ahead of their turn
  nextIndex,     \* flush: the index of the next row to insert
  workers,       \* worker goroutine -> where it is and the result it holds
  reader,        \* where the calling goroutine of processRowsParallel is
  drain,         \* the `i` of the final receive loop
  inserted,      \* the rows the prepared INSERT has executed, in execution order
  err,           \* the error Run returned, NoError while it has returned none
  ret,           \* the error processRowsParallel returned, NoError while it has returned none
  built,         \* transform.Build: its arguments and what it returned
  calls,         \* the calls of the built transformer's Transform, with their results
  runNo,         \* the number of the run the transformer was built in
  pkset,         \* a PKSet; its Values name the slices they are stored in
  heap,          \* the slices of tuples in memory: those of the caller, then those Add made
  adds,          \* the calls of PKSet.Add: the tuple passed, the result, len(Values) before and after
  files          \* the file system: path -> what is there

ordVars == << schema, iter, order, opc >>

runVars == << db, cfg, opts, pc, pragma, selection, selNil, changed, rounds, outTables, ddl, output,
              ti, pendingChunks, cursor, transformers, post, err >>

parVars == << args, unread, index, inflight, jobsCh, jobsClosed, resultsCh, pending,
              nextIndex, workers, reader, drain, inserted, ret >>

trVars == << built, calls, runNo >>

pkVars == << pkset, heap, adds >>

fsVars == << files >>

vars == << ordVars, runVars, parVars, trVars, pkVars, fsVars >>

(***************************************************************************)
(* schema.TableOrder                                                       *)
(***************************************************************************)
\* the foreign keys of a table that reference a table of the schema
ExistingRefs(s, name) ==
  SelectSeq(s.Tables[name].ForeignKeys, LAMBDA fk : fk.Table \in DOMAIN s.Tables)

RECURSIVE ChildrenOf(_, _, _)
\* graph[parent]: one entry per foreign key row, appended as the tables are ranged over
ChildrenOf(s, parent, names) ==
  IF names = <<>> THEN <<>>
  ELSE LET refs == SelectSeq(ExistingRefs(s, Head(names)), LAMBDA fk : fk.Table = parent)
       IN  [n \in 1..Len(refs) |-> Head(names)] \o ChildrenOf(s, parent, Tail(names))

\* a mutant of InDegree: a table's foreign keys are not counted
InDegreeZero(s) == [name \in DOMAIN s.Tables |-> 0]

\* indeg: the number of foreign key rows of each table that reference an existing table
InDegree(s) == [name \in DOMAIN s.Tables |-> Len(ExistingRefs(s, name))]

RECURSIVE Relax(_, _, _)
\* for _, dep := range graph[n]: indeg[dep]--, and dep joins the queue at 0
Relax(deps, indeg, queue) ==
  IF deps = <<>> THEN [indeg |-> indeg, queue |-> queue]
  ELSE LET dep == Head(deps)
           dec == [indeg EXCEPT ![dep] = @ - 1]
       IN  Relax(Tail(deps), dec, IF dec[dep] = 0 THEN Append(queue, dep) ELSE queue)

RECURSIVE KahnUnsorted(_, _, _, _, _)
\* a mutant of Kahn: the queue is not sorted after the dependents joined it
KahnUnsorted(s, names, indeg, queue, emitted) ==
  IF queue = <<>> THEN emitted
  ELSE LET n == Head(queue)
           r == Relax(ChildrenOf(s, n, names), indeg, Tail(queue))
       IN  KahnUnsorted(s, names, r.indeg, r.queue, Append(emitted, n))

RECURSIVE Kahn(_, _, _, _, _)
\* for len(queue) > 0: pop the head, emit it, relax its dependents, sort the queue
Kahn(s, names, indeg, queue, emitted) ==
  IF queue = <<>> THEN emitted
  ELSE LET n == Head(queue)
           r == Relax(ChildrenOf(s, n, names), indeg, Tail(queue))
       IN  Kahn(s, names, r.indeg, SortStrings(r.queue), Append(emitted, n))

\* a mutant of MissingTables: the tables Kahn's loop left out are dropped
MissingTablesDropped(s, names, emitted) == <<>>

\* the tables not emitted by the loop, sorted
MissingTables(s, names, emitted) ==
  SortStrings(SelectSeq(names, LAMBDA name : name \notin SeqToSet(emitted)))

\* TableOrder(s), with the map ranged over in the order `names`
TableOrder(s, names) ==
  LET indeg   == InDegree(s)
      queue   == SortStrings(SelectSeq(names, LAMBDA name : indeg[name] = 0))
      emitted == Kahn(s, names, indeg, queue, <<>>)
  IN  IF Len(emitted) # Cardinality(DOMAIN s.Tables)
      THEN emitted \o MissingTables(s, names, emitted)
      ELSE emitted

(***************************************************************************)
(* SpecOrder: TableOrder applied to every FK graph over OrderTables with   *)
(* at most MaxFKs foreign key rows, under every map iteration order.       *)
(***************************************************************************)
OrderTables == {"a", "b", "c"}
\* "zz" is referenced but is no table of the schema
OrderRefs == OrderTables \cup {"zz"}
\* most foreign key rows of a drawn FK graph
MaxFKs == 3

RECURSIVE SeqsUpTo(_, _)
\* the sequences over S of length at most n
SeqsUpTo(S, n) ==
  IF n = 0 THEN { <<>> }
  ELSE LET shorter == SeqsUpTo(S, n - 1)
       IN  shorter \cup { Append(q, x) : q \in shorter, x \in S }

RECURSIVE SumLen(_, _)
\* the number of foreign key rows drawn for the tables of S
SumLen(fks, S) ==
  IF S = {} THEN 0
  ELSE LET x == CHOOSE x \in S : TRUE IN Len(fks[x]) + SumLen(fks, S \ {x})

RECURSIVE Perms(_)
\* the orders in which a map with key set S can be ranged over
Perms(S) ==
  IF S = {} THEN { <<>> }
  ELSE UNION { { << x >> \o q : q \in Perms(S \ {x}) } : x \in S }

\* a foreign key row as PRAGMA foreign_key_list returns it
ForeignKey(id, seq, ref, from, to) ==
  [ID |-> id, Seq |-> seq, Table |-> ref, From |-> from, To |-> to]

\* schema.Table; SQL stands for the CREATE statement of the catalogue
Table(name, cols, pks, fks, withoutRowID) ==
  [Name |-> name, SQL |-> << "CREATE TABLE", name >>, Columns |-> cols,
   PrimaryKeys |-> pks, ForeignKeys |-> fks, WithoutRowID |-> withoutRowID]

\* a table whose rows are (id, ref) with one single-column foreign key per entry of refs
GraphTable(name, refs) ==
  Table(name, << "id", "ref" >>, << "id" >>,
        [n \in 1..Len(refs) |-> ForeignKey(n - 1, 0, refs[n], "ref", "id")], FALSE)

NoItems == <<>>

\* an error value: the text fmt.Errorf puts before the wrapped cause, and the
\* table and column names the text carries
Errorf(msg, table, column) == [msg |-> msg, table |-> table, column |-> column]

\* the nil error
NoError == Errorf("", "", "")

\* Run has not been called
RunIdle ==
  /\ db = << >> /\ cfg = << >> /\ opts = << >> /\ pc = "idle" /\ pragma = "unset"
  /\ selection = << >> /\ selNil = TRUE /\ changed = FALSE /\ rounds = 0
  /\ outTables = << >> /\ ddl = << >> /\ output = << >> /\ ti = 0
  /\ pendingChunks = << >> /\ cursor = << >> /\ transformers = << >> /\ post = << >>
  /\ err = NoError

\* processRowsParallel has not been called
ParIdle ==
  /\ args = << >> /\ unread = << >> /\ index = 0 /\ inflight = 0
  /\ jobsCh = << >> /\ jobsClosed = FALSE /\ resultsCh = << >>
  /\ pending = << >> /\ nextIndex = 0 /\ workers = << >>
  /\ reader = "idle" /\ drain = 0 /\ inserted = << >> /\ ret = NoError

\* transform.Build has not been called
TrIdle == built = << >> /\ calls = << >> /\ runNo = 0

\* no PKSet is being filled by the calls of SpecPKSet
PKIdle == pkset = << >> /\ heap = << >> /\ adds = << >>

\* the file system is not looked at
FsIdle == files = << >>

InitOrder ==
  /\ \E fks \in [OrderTables -> SeqsUpTo(OrderRefs, MaxFKs)] :
       /\ SumLen(fks, OrderTables) <= MaxFKs
       /\ schema = [Tables |-> [name \in OrderTables |-> GraphTable(name, fks[name])],
                    Views |-> NoItems, Indexes |-> NoItems, Triggers |-> NoItems]
  /\ iter \in Perms(OrderTables)
  /\ order = <<>>
  /\ opc = "call"
  /\ RunIdle
  /\ ParIdle
  /\ TrIdle
  /\ PKIdle
  /\ FsIdle

CallTableOrder ==
  /\ opc = "call"
  /\ order' = TableOrder(schema, iter)
  /\ opc' = "ret"
  /\ UNCHANGED << schema, iter, runVars, parVars, fsVars, trVars, pkVars >>

NextOrder == CallTableOrder

SpecOrder == InitOrder /\ [][NextOrder]_vars

(***************************************************************************)
(* Claims about TableOrder.                                                *)
(***************************************************************************)
Position(q, x) == CHOOSE n \in 1..Len(q) : q[n] = x

\* the tables `name` references, among the tables of the schema
Parents(s, name) == { fk.Table : fk \in SeqToSet(ExistingRefs(s, name)) }

RECURSIVE Reach(_, _)
\* the tables reachable from the set S along references
Reach(s, S) ==
  LET more == S \cup UNION { Parents(s, x) : x \in S }
  IN  IF more = S THEN S ELSE Reach(s, more)

\* no table reaches itself along one or more references
Acyclic(s) == \A name \in DOMAIN s.Tables : name \notin Reach(s, Parents(s, name))

\* C6: for an acyclic FK graph over existing tables, TableOrder places every
\* table after every table it references.
C6_ParentsFirst ==
  (opc = "ret" /\ Acyclic(schema)) =>
    \A child \in DOMAIN schema.Tables : \A parent \in Parents(schema, child) :
      /\ child \in SeqToSet(order) /\ parent \in SeqToSet(order)
      /\ Position(order, parent) < Position(order, child)

\* C6 witness: an acyclic schema with a chain of two references has been ordered
C6_Witness ==
  /\ opc = "ret" /\ Acyclic(schema)
  /\ \E x, y, z \in DOMAIN schema.Tables :
       x # y /\ y # z /\ x \in Parents(schema, y) /\ y \in Parents(schema, z)

\* the tables Kahn's loop emits: those that reach no cycle along references
OnNoCycle(s) ==
  { name \in DOMAIN s.Tables :
      \A x \in Reach(s, {name}) : x \notin Reach(s, Parents(s, x)) }

\* C7: for any FK graph (cycles, references to missing tables), TableOrder is
\* a total order: every table appears exactly once, and the tables Kahn's
\* loop does not emit come last, in lexicographic order.
C7_TotalOrder ==
  opc = "ret" =>
    /\ Len(order) = Cardinality(DOMAIN schema.Tables)
    /\ SeqToSet(order) = DOMAIN schema.Tables
    /\ LET k == Cardinality(OnNoCycle(schema))
       IN  /\ { order[n] : n \in 1..k } = OnNoCycle(schema)
           /\ \A m, n \in (k + 1)..Len(order) : m < n => NameLess(order[m], order[n])

\* C7 witness: a schema with a cycle of two tables and a reference to a
\* missing table has been ordered
C7_Witness ==
  /\ opc = "ret"
  /\ Cardinality(DOMAIN schema.Tables \ OnNoCycle(schema)) >= 2
  /\ \E name \in DOMAIN schema.Tables :
       \E fk \in SeqToSet(schema.Tables[name].ForeignKeys) : fk.Table = "zz"


(***************************************************************************)
(* The storage engine, by what its statements return.  A database is a     *)
(* function from table names to sets of rows; a row is a function from     *)
(* column names to cell values (a rowid table's rows carry "rowid").       *)
(* Values of different storage classes are never equal (columns without    *)
(* type affinity), and NULL matches nothing in an IN list.                 *)
(***************************************************************************)
ValRank(v) == CASE v.k = "null" -> 0 [] v.k = "int" -> 1 [] OTHER -> 2

\* ORDER BY on one value: NULL, then integers, then text bytewise
ValLess(x, y) ==
  \/ ValRank(x) < ValRank(y)
  \/ /\ ValRank(x) = ValRank(y)
     /\ \/ x.k = "int" /\ x.i < y.i
        \/ x.k = "text" /\ StrLess(x.s, y.s)

RECURSIVE TupleLess(_, _)
TupleLess(x, y) ==
  IF x = <<>> \/ y = <<>> THEN FALSE
  ELSE IF Head(x) = Head(y) THEN TupleLess(Tail(x), Tail(y))
  ELSE ValLess(Head(x), Head(y))

\* the values a row holds in the columns cols
Project(row, cols) == [n \in 1..Len(cols) |-> row[cols[n]]]

\* the rows of the (rank, row) pairs by ascending rank
Ranked(pairs) ==
  [k \in 1..Cardinality(pairs) |-> (CHOOSE p \in pairs : p[1] = k)[2]]

\* the rows of a set in ascending order of the columns cols, a key of the rows
OrderBy(rows, cols) ==
  Ranked({ << 1 + Cardinality({ q \in rows : TupleLess(Project(q, cols), Project(r, cols)) }),
              r >> : r \in rows })

\* a mutant of InTuples: the IN list is not applied
InTuplesAny(vals, tuples) == TRUE

\* `(cols) IN (tuples)` for one row's values
InTuples(vals, tuples) ==
  \E n \in 1..Len(tuples) :
    \A c \in 1..Len(vals) : vals[c].k # "null" /\ vals[c] = tuples[n][c]

NotNull(vals) == \A c \in 1..Len(vals) : vals[c].k # "null"

RECURSIVE Distinct(_, _)
\* SELECT DISTINCT: the first occurrence of each tuple, in result order
Distinct(q, seen) ==
  IF q = <<>> THEN <<>>
  ELSE IF Head(q) \in seen THEN Distinct(Tail(q), seen)
  ELSE << Head(q) >> \o Distinct(Tail(q), seen \cup {Head(q)})

RECURSIVE Flatten(_)
Flatten(qs) == IF qs = <<>> THEN <<>> ELSE Head(qs) \o Flatten(Tail(qs))

(***************************************************************************)
(* subset: PKSet, tablePKColumns, chunkValues                              *)
(***************************************************************************)
ChunkSize == 500

NewPKSet(cols) == [Cols |-> cols, Keys |-> {}, Values |-> <<>>]

\* a mutant of PKSetAdd: the set is left as it was
PKSetAddNothing(set, values) == set

\* PKSet.Add: the tuple is appended unless its key is already in Keys
PKSetAdd(set, values) ==
  IF keyFor(values) \in set.Keys THEN set
  ELSE [set EXCEPT !.Keys = @ \cup {keyFor(values)}, !.Values = Append(@, values)]

RECURSIVE AddAll(_, _)
\* Add applied to each tuple of a result in turn.  The first test reads the
\* set, so that TLC evaluates the Adds in their order and not as one nest.
AddAll(set, tuples) ==
  IF Len(set.Values) >= 0 /\ Len(tuples) = 0 THEN set
  ELSE IF Len(tuples) = 1 THEN PKSetAdd(set, tuples[1])
  ELSE AddAll(AddAll(set, SubSeq(tuples, 1, Len(tuples) \div 2)),
              SubSeq(tuples, (Len(tuples) \div 2) + 1, Len(tuples)))

\* PKSet.ValuesByColumns: Values itself for Cols, otherwise each tuple's
\* values in the requested columns; an error for a column the set lacks
ValuesByColumns(set, cols) ==
  IF cols = <<>> THEN [err |-> TRUE, vals |-> <<>>]
  ELSE IF cols = set.Cols THEN [err |-> FALSE, vals |-> set.Values]
  ELSE IF \E n \in 1..Len(cols) : cols[n] \notin SeqToSet(set.Cols)
       THEN [err |-> TRUE, vals |-> <<>>]
  ELSE LET pos(c) == CHOOSE n \in 1..Len(set.Cols) :
                       /\ set.Cols[n] = c
                       /\ \A m \in (n + 1)..Len(set.Cols) : set.Cols[m] # c
       IN  [err |-> FALSE,
            vals |-> [r \in 1..Len(set.Values) |->
                       [n \in 1..Len(cols) |-> set.Values[r][pos(cols[n])]]]]

\* tablePKColumns: the declared primary key, or rowid, or an error
tablePKColumns(tbl) ==
  IF Len(tbl.PrimaryKeys) > 0
  THEN [cols |-> tbl.PrimaryKeys, useRowID |-> FALSE, err |-> FALSE]
  ELSE IF tbl.WithoutRowID
  THEN [cols |-> <<>>, useRowID |-> FALSE, err |-> TRUE]
  ELSE [cols |-> << "rowid" >>, useRowID |-> TRUE, err |-> FALSE]

RECURSIVE SplitEvery(_, _)
SplitEvery(values, size) ==
  IF values = <<>> THEN <<>>
  ELSE IF Len(values) <= size THEN << values >>
  ELSE << SubSeq(values, 1, size) >> \o SplitEvery(SubSeq(values, size + 1, Len(values)), size)

\* chunkValues: one chunk when the values fit (also when there are none)
chunkValues(values, size) ==
  IF size <= 0 \/ Len(values) <= size THEN << values >> ELSE SplitEvery(values, size)

\* the rows of a table in the order the engine scans them: by primary key or rowid
Scan(d, tbl) ==
  OrderBy(d[tbl.Name],
          IF Len(tbl.PrimaryKeys) > 0 THEN tbl.PrimaryKeys ELSE << "rowid" >>)

(***************************************************************************)
(* subset: groupFKs and the queries of the fixed-point expansion.  An      *)
(* operator that can fail returns err; a Selection is a function from the  *)
(* tables that have a PKSet to their PKSet.                                *)
(***************************************************************************)
RECURSIVE SortInts(_)
SortInts(S) ==
  IF S = {} THEN <<>>
  ELSE LET m == CHOOSE x \in S : \A y \in S : x <= y
       IN  << m >> \o SortInts(S \ {m})

\* groupFKs: the foreign key rows of one constraint id form a group; groups by ascending id
groupFKs(tbl) ==
  LET fks == tbl.ForeignKeys
      ids == SortInts({ fks[n].ID : n \in 1..Len(fks) })
      group(id) ==
        LET part == SelectSeq(fks, LAMBDA fk : fk.ID = id)
        IN  [RefTable |-> part[1].Table,
             FromCols |-> [n \in 1..Len(part) |-> part[n].From],
             ToCols   |-> [n \in 1..Len(part) |-> part[n].To]]
  IN  [n \in 1..Len(ids) |-> group(ids[n])]

sameColumnOrder(x, y) == x = y

ProjectAll(rows, cols) == [n \in 1..Len(rows) |-> Project(rows[n], cols)]

\* the queries of selectFKValues: SELECT DISTINCT from_cols FROM child
\*   WHERE pk IN (chunk) AND from_cols IS NOT NULL, chunk by chunk
FKValuesQuery(d, childTbl, fk, pkCols, chunks) ==
  Flatten([n \in 1..Len(chunks) |->
    Distinct(ProjectAll(SelectSeq(Scan(d, childTbl), LAMBDA r :
               /\ InTuples(Project(r, pkCols), chunks[n])
               /\ NotNull(Project(r, fk.FromCols))), fk.FromCols), {})])

\* selectFKValues after tablePKColumns (pk) and ValuesByColumns (mine)
selectFKValuesOf(d, childTbl, fk, pk, mine) ==
  IF pk.err THEN [err |-> TRUE, vals |-> <<>>]
  ELSE IF mine.err THEN [err |-> TRUE, vals |-> <<>>]
  ELSE IF Len(mine.vals) = 0 THEN [err |-> FALSE, vals |-> <<>>]
  ELSE [err |-> FALSE,
        vals |-> FKValuesQuery(d, childTbl, fk, pk.cols, chunkValues(mine.vals, ChunkSize))]

\* selectFKValues: the distinct non-NULL from_cols tuples of the selected child rows
selectFKValues(d, childTbl, fk, childSet) ==
  selectFKValuesOf(d, childTbl, fk, tablePKColumns(childTbl),
                   ValuesByColumns(childSet, tablePKColumns(childTbl).cols))

\* the queries of selectParentPKs: SELECT pk FROM parent WHERE to_cols IN (chunk)
ParentPKsQuery(d, parentTbl, fk, pkCols, chunks) ==
  Flatten([n \in 1..Len(chunks) |->
    ProjectAll(SelectSeq(Scan(d, parentTbl), LAMBDA r :
                 InTuples(Project(r, fk.ToCols), chunks[n])), pkCols)])

\* selectParentPKs: the primary keys of the parent rows whose to_cols are in refVals
selectParentPKs(d, parentTbl, fk, refVals, parentSet) ==
  IF tablePKColumns(parentTbl).err THEN [err |-> TRUE, set |-> parentSet]
  ELSE [err |-> FALSE,
        set |-> AddAll(parentSet,
                  ParentPKsQuery(d, parentTbl, fk, tablePKColumns(parentTbl).cols,
                                 chunkValues(refVals, ChunkSize)))]

\* what a step of the expansion did to the Selection: r.set is the grown
\* PKSet of `name`, before the PKSet the step started from
Grown(sel, name, before, r) ==
  [sel   |-> (name :> r.set) @@ sel,
   added |-> Len(r.set.Values) > Len(before.Values),
   err   |-> r.err]

\* addParentKeys once parentSet is there: the referenced tuples themselves
\* when the PKSet's columns are to_cols in order, else selectParentPKs
addParentKeysTo(d, parentTbl, fk, refVals, sel, parentSet) ==
  Grown(sel, fk.RefTable, parentSet,
        IF sameColumnOrder(parentSet.Cols, fk.ToCols)
        THEN [err |-> FALSE, set |-> AddAll(parentSet, refVals)]
        ELSE selectParentPKs(d, parentTbl, fk, refVals, parentSet))

\* a mutant of addParentKeys: the referenced keys are not added
addParentKeysSkipped(d, parentTbl, fk, refVals, sel) ==
  [sel |-> sel, added |-> FALSE, err |-> FALSE]

\* addParentKeys
addParentKeys(d, parentTbl, fk, refVals, sel) ==
  IF Len(refVals) = 0 THEN [sel |-> sel, added |-> FALSE, err |-> FALSE]
  ELSE IF fk.RefTable \in DOMAIN sel
  THEN addParentKeysTo(d, parentTbl, fk, refVals, sel, sel[fk.RefTable])
  ELSE IF tablePKColumns(parentTbl).err THEN [sel |-> sel, added |-> FALSE, err |-> TRUE]
  ELSE addParentKeysTo(d, parentTbl, fk, refVals, sel, NewPKSet(tablePKColumns(parentTbl).cols))

\* the queries of addChildKeys: SELECT DISTINCT pk FROM child WHERE from_cols IN (chunk)
ChildKeysQuery(d, childTbl, fk, pkCols, chunks) ==
  Flatten([n \in 1..Len(chunks) |->
    Distinct(ProjectAll(SelectSeq(Scan(d, childTbl), LAMBDA r :
               InTuples(Project(r, fk.FromCols), chunks[n])), pkCols), {})])

\* addChildKeys once childSet is there; theirs is parentSet.ValuesByColumns(to_cols)
addChildKeysTo(d, childTbl, fk, theirs, sel, childSet) ==
  IF theirs.err
  THEN [sel |-> (childTbl.Name :> childSet) @@ sel, added |-> FALSE, err |-> TRUE]
  ELSE IF Len(theirs.vals) = 0
  THEN [sel |-> (childTbl.Name :> childSet) @@ sel, added |-> FALSE, err |-> FALSE]
  ELSE Grown(sel, childTbl.Name, childSet,
             [err |-> FALSE,
              set |-> AddAll(childSet,
                        ChildKeysQuery(d, childTbl, fk, tablePKColumns(childTbl).cols,
                                       chunkValues(theirs.vals, ChunkSize)))])

\* a mutant of addChildKeys: the referencing rows are not added
addChildKeysSkipped(d, childTbl, fk, parentSet, sel) ==
  [sel |-> sel, added |-> FALSE, err |-> FALSE]

\* addChildKeys: the primary keys of the child rows that reference a tuple
\* of the parent's PKSet
addChildKeys(d, childTbl, fk, parentSet, sel) ==
  IF tablePKColumns(childTbl).err THEN [sel |-> sel, added |-> FALSE, err |-> TRUE]
  ELSE addChildKeysTo(d, childTbl, fk, ValuesByColumns(parentSet, fk.ToCols), sel,
                      IF childTbl.Name \in DOMAIN sel THEN sel[childTbl.Name]
                      ELSE NewPKSet(tablePKColumns(childTbl).cols))

(***************************************************************************)
(* subset.expandSelection: one round of the outer loop.  st is the         *)
(* Selection with the round's `changed` flag and a pending error.          *)
(***************************************************************************)
\* a mutant of Merge: changed is set whatever the call added
MergeAlways(st, a) == [sel |-> a.sel, changed |-> TRUE, err |-> a.err]

\* st after a call that returned a: `if err != nil { return err }; if added { changed = true }`
Merge(st, a) == [sel |-> a.sel, changed |-> st.changed \/ a.added, err |-> a.err]

\* `if len(refVals) > 0 { addParentKeys }`, refVals as selectFKValues returned it
LiftWith(s, d, st, fk, refVals) ==
  IF refVals.err THEN [st EXCEPT !.err = TRUE]
  ELSE IF Len(refVals.vals) > 0
  THEN Merge(st, addParentKeys(d, s.Tables[fk.RefTable], fk, refVals.vals, st.sel))
  ELSE st

\* `if childSet != nil && childSet.Len() > 0`: the parents of the selected child rows
ExpandLift(s, d, st, childName, fk, childNil) ==
  IF ~childNil /\ Len(st.sel[childName].Values) > 0
  THEN LiftWith(s, d, st, fk, selectFKValues(d, s.Tables[childName], fk, st.sel[childName]))
  ELSE st

\* `if parentSet != nil && parentSet.Len() > 0`: the children of the selected parent rows
ExpandDescent(s, d, lift, childName, fk, parentNil) ==
  IF lift.err THEN lift
  ELSE IF ~parentNil /\ Len(lift.sel[fk.RefTable].Values) > 0
  THEN Merge(lift, addChildKeys(d, s.Tables[childName], fk, lift.sel[fk.RefTable], lift.sel))
  ELSE lift

\* the body of `for _, fk := range groups`.  childNil: the childSet captured
\* before the groups are ranged over was nil; parentSet is captured before
\* the lift
ExpandGroup(s, d, st, childName, fk, childNil) ==
  IF st.err THEN st
  ELSE IF fk.RefTable \notin DOMAIN s.Tables THEN st
  ELSE ExpandDescent(s, d, ExpandLift(s, d, st, childName, fk, childNil),
                     childName, fk, fk.RefTable \notin DOMAIN st.sel)

RECURSIVE ExpandGroups(_, _, _, _, _, _)
ExpandGroups(s, d, st, childName, groups, childNil) ==
  IF groups = <<>> THEN st
  ELSE ExpandGroups(s, d, ExpandGroup(s, d, st, childName, Head(groups), childNil),
                    childName, Tail(groups), childNil)

RECURSIVE ExpandTables(_, _, _, _)
\* the body of `for _, childName := range tableNames`
ExpandTables(s, d, st, names) ==
  IF names = <<>> THEN st
  ELSE LET childName == Head(names)
           after == ExpandGroups(s, d, st, childName, groupFKs(s.Tables[childName]),
                                 childName \notin DOMAIN st.sel)
       IN  ExpandTables(s, d, after, Tail(names))

\* one pass of `for changed`: changed starts false
ExpandRoundOf(s, d, sel) ==
  ExpandTables(s, d, [sel |-> sel, changed |-> FALSE, err |-> FALSE],
               SortNames(DOMAIN s.Tables))

(***************************************************************************)
(* subset.BuildSelection: the roots                                        *)
(***************************************************************************)
NoWhere == [col |-> "", val |-> NULL]

\* SELECT pk FROM root [WHERE col = val] ORDER BY pk [LIMIT n]
RootQuery(d, tbl, root) ==
  LET pk   == tablePKColumns(tbl)
      hits == { r \in d[tbl.Name] : root.Where.col = "" \/ r[root.Where.col] = root.Where.val }
      all  == ProjectAll(OrderBy(hits, pk.cols), pk.cols)
  IN  IF root.Limit > 0 /\ root.Limit < Len(all) THEN SubSeq(all, 1, root.Limit) ELSE all

RECURSIVE BuildRoots(_, _, _, _)
\* the body of `for _, root := range cfg.Subset.Roots`
BuildRoots(s, d, st, roots) ==
  IF roots = <<>> \/ st.err THEN st
  ELSE LET root == Head(roots)
           tbl  == s.Tables[root.Table]
           pk   == tablePKColumns(tbl)
           set  == IF root.Table \in DOMAIN st.sel THEN st.sel[root.Table]
                   ELSE NewPKSet(pk.cols)
       IN  IF root.Table = "" THEN BuildRoots(s, d, st, Tail(roots))
           ELSE IF root.Table \notin DOMAIN s.Tables
           THEN [st EXCEPT !.err = TRUE,
                           !.e = Errorf("subset root table not found", root.Table, "")]
           ELSE IF pk.err
           THEN [st EXCEPT !.err = TRUE, !.e = Errorf("no primary key", root.Table, "")]
           ELSE BuildRoots(s, d,
                  [st EXCEPT !.sel = (root.Table :> AddAll(set, RootQuery(d, tbl, root))) @@ st.sel],
                  Tail(roots))

\* Selection{Sets: map[string]*PKSet{}}
EmptySelection == [name \in {} |-> NewPKSet(<<>>)]

(***************************************************************************)
(* copy: include/exclude filtering, transformers, the output database      *)
(***************************************************************************)
\* path.Match for the patterns of the model: * matches every name, u* the
\* names that begin with u, the malformed [ matches nothing (ErrBadPattern,
\* which MatchAny drops), any other pattern is a literal
PathMatch(pattern, name) ==
  CASE pattern = "*"  -> TRUE
    [] pattern = "u*" -> name \in {"users"}
    [] pattern = "["  -> FALSE
    [] OTHER          -> pattern = name

\* schema.MatchAny
MatchAny(patterns, name) ==
  /\ Len(patterns) # 0
  /\ \E n \in 1..Len(patterns) : PathMatch(patterns[n], name)

\* a mutant of tableIncluded: the exclude patterns are ignored
tableIncludedNoExclude(c, name) ==
  ~(Len(c.IncludeTables) > 0 /\ ~MatchAny(c.IncludeTables, name))

\* tableIncluded
tableIncluded(c, name) ==
  IF Len(c.IncludeTables) > 0 /\ ~MatchAny(c.IncludeTables, name) THEN FALSE
  ELSE IF MatchAny(c.ExcludeTables, name) THEN FALSE
  ELSE TRUE

\* the transformer types of the model: the built-ins SetNull and SetValue,
\* and "rejectnil", a registered plugin whose function returns an error for
\* a nil value and the value itself otherwise
KnownTypes == {"setnull", "setvalue", "rejectnil"}

\* strings.ToLower on the option strings of the model
ToLower(str) ==
  CASE str \in {"ON", "On"} -> "on"
    [] str = "OFF"         -> "off"
    [] OTHER       -> str

\* buildTransformers: a transformer per configured column, or an error for
\* a type that is neither registered nor built in
buildTransformers(c, table) ==
  IF table \notin DOMAIN c.Tables THEN [err |-> FALSE, trs |-> << >>, bad |-> {}]
  ELSE [err |-> \E col \in DOMAIN c.Tables[table].Columns :
                  ToLower(c.Tables[table].Columns[col].Type) \notin KnownTypes,
        trs |-> c.Tables[table].Columns,
        bad |-> { col \in DOMAIN c.Tables[table].Columns :
                    ToLower(c.Tables[table].Columns[col].Type) \notin KnownTypes }]

\* the error the plugin function of "rejectnil" returns: its own text, which
\* names neither the table nor the column
PluginError == Errorf("nil value", "", "")

\* Transformer.Transform
Transform(tr, value) ==
  CASE ToLower(tr.Type) = "setnull"  -> [err |-> FALSE, val |-> NULL]
    [] ToLower(tr.Type) = "setvalue" -> [err |-> FALSE, val |-> tr.Value]
    [] OTHER -> [err |-> value.k = "null", val |-> value]

\* colIndex[col]: the position of a declared column; Go's map yields 0,
\* the first column, for a name that is not declared
colIndex(tbl, col) ==
  IF col \in SeqToSet(tbl.Columns)
  THEN CHOOSE n \in 1..Len(tbl.Columns) : tbl.Columns[n] = col
  ELSE 1

\* values[idx], err = tr.Transform(values[idx], rowCtx); col is the column
\* whose transformer returned the error
TransformAt(values, idx, r, col) ==
  [err |-> r.err, values |-> IF r.err THEN values ELSE [values EXCEPT ![idx] = r.val],
   col |-> IF r.err THEN col ELSE ""]

RECURSIVE ApplyTransformers(_, _, _, _)
\* `for col, tr := range transformers`, ranged over in the order cols; the
\* loop is left at the first error
ApplyTransformers(tbl, trs, cols, t) ==
  IF cols = <<>> \/ t.err THEN t
  ELSE ApplyTransformers(tbl, trs, Tail(cols),
         TransformAt(t.values, colIndex(tbl, Head(cols)),
                     Transform(trs[Head(cols)], t.values[colIndex(tbl, Head(cols))]),
                     Head(cols)))

\* buildRowContext's values: the scanned row without the leading rowid
RowValues(tbl, row) == [n \in 1..Len(tbl.Columns) |-> row[tbl.Columns[n]]]

\* the values of a scanned row after the transformers, ranged over in the order cols
TransformRow(tbl, trs, cols, row) ==
  ApplyTransformers(tbl, trs, cols, [err |-> FALSE, values |-> RowValues(tbl, row), col |-> ""])

\* a row of the output as the engine sees it
OutRow(tbl, vals) == [col \in SeqToSet(tbl.Columns) |-> vals[colIndex(tbl, col)]]

\* the output rows of a table
OutRowsOf(s, out, name) ==
  { OutRow(s.Tables[name], out[name][n].vals) : n \in 1..Len(out[name]) }

\* `row` has non-NULL foreign key columns that match no row of parents(table)
FKViolated(s, tbl, row, created, parents(_)) ==
  \E n \in 1..Len(groupFKs(tbl)) :
    /\ NotNull(Project(row, groupFKs(tbl)[n].FromCols))
    /\ \/ groupFKs(tbl)[n].RefTable \notin created
       \/ ~\E p \in parents(groupFKs(tbl)[n].RefTable) :
             Project(p, groupFKs(tbl)[n].ToCols) = Project(row, groupFKs(tbl)[n].FromCols)

\* the tables of the output with `row` added to the table it is inserted into
WithRow(s, out, tbl, row, name) ==
  IF name = tbl.Name THEN OutRowsOf(s, out, name) \cup {row} ELSE OutRowsOf(s, out, name)

\* stmt.ExecContext fails: a duplicate primary key; with foreign_keys = ON
\* also a parent table that does not exist (the statement does not compile)
\* or a row whose parent row is not there
ExecFails(s, fk, out, created, tbl, row) ==
  \/ /\ Len(tbl.PrimaryKeys) > 0
     /\ NotNull(Project(row, tbl.PrimaryKeys))
     /\ \E q \in OutRowsOf(s, out, tbl.Name) :
          Project(q, tbl.PrimaryKeys) = Project(row, tbl.PrimaryKeys)
  \/ /\ fk = "on"
     /\ \/ \E n \in 1..Len(groupFKs(tbl)) : groupFKs(tbl)[n].RefTable \notin created
        \/ FKViolated(s, tbl, row, created, LAMBDA name : WithRow(s, out, tbl, row, name))

InsertFails(s, fk, out, created, tbl, vals) ==
  ExecFails(s, fk, out, created, tbl, OutRow(tbl, vals))

\* a mutant of sortRows: the tuples are left in insertion order
sortRowsNot(values) == values

\* v put into the sorted tuples after their first k
InsertAt(sorted, v, k) == SubSeq(sorted, 1, k) \o << v >> \o SubSeq(sorted, k + 1, Len(sorted))

\* v put where `keyFor(values[i]) < keyFor(values[j])` places it
InsertByKey(sorted, v) ==
  InsertAt(sorted, v,
           Cardinality({ j \in 1..Len(sorted) : StrLess(keyFor(sorted[j]), keyFor(v)) }))

RECURSIVE InsertAll(_, _)
\* the tuples of values put into the sorted tuples one after the other (the
\* first test reads the sorted tuples, as in AddAll)
InsertAll(sorted, values) ==
  IF Len(sorted) >= 0 /\ Len(values) = 0 THEN sorted
  ELSE IF Len(values) = 1 THEN InsertByKey(sorted, values[1])
  ELSE InsertAll(InsertAll(sorted, SubSeq(values, 1, Len(values) \div 2)),
                 SubSeq(values, (Len(values) \div 2) + 1, Len(values)))

\* sortRows: sort.Slice by the textual key (the keys of a PKSet are distinct)
sortRows(values) == InsertAll(<< >>, values)

\* a mutant of setFKMode: the PRAGMA is not executed
setFKModeSkipped(mode) ==
  IF ToLower(mode) \in {"on", "off"} THEN [err |-> FALSE, fk |-> "off"]
  ELSE [err |-> TRUE, fk |-> "unset"]

\* setFKMode: PRAGMA foreign_keys = ON or OFF on the output, an error for any other mode
setFKMode(mode) ==
  IF ToLower(mode) \in {"on", "off"} THEN [err |-> FALSE, fk |-> ToLower(mode)]
  ELSE [err |-> TRUE, fk |-> "unset"]

(***************************************************************************)
(* copy.Run, stage by stage                                                *)
(***************************************************************************)
\* the variables Run only reads
inputVars == << schema, iter, opc, db, cfg, opts >>

\* Run returns the error e
Fail(e) == pc' = "failed" /\ err' = e

\* Run goes on: it has returned nothing
GoOn == err' = err

\* Run up to the call of BuildSelection: setFKMode, schema.Load, TableOrder
RunBegin ==
  /\ pc = "start"
  /\ IF setFKMode(opts.FKMode).err
     THEN Fail(Errorf("invalid fk mode", "", "")) /\ UNCHANGED << order, pragma >>
     ELSE /\ pragma' = setFKMode(opts.FKMode).fk
          /\ GoOn
          /\ order' = TableOrder(schema, iter)
          /\ pc' = IF opts.Subset \/ ~cfg.Subset.nil THEN "roots" ELSE "schema"
  /\ UNCHANGED << inputVars, parVars, fsVars, trVars, pkVars, rounds, selection, selNil, changed,
                  outTables, ddl, output, ti, pendingChunks, cursor, transformers, post >>

\* BuildSelection returns r, or goes on to expandSelection
RootsBuilt(r) ==
  IF r.err THEN Fail(r.e) /\ UNCHANGED << selection, selNil, changed >>
  ELSE /\ selection' = r.sel /\ changed' = TRUE /\ pc' = "expand"
       /\ UNCHANGED selNil /\ GoOn

\* BuildSelection up to the call of expandSelection
BuildSelectionRoots ==
  /\ pc = "roots"
  /\ IF cfg.Subset.nil \/ Len(cfg.Subset.Roots) = 0
     THEN /\ selection' = EmptySelection /\ selNil' = FALSE /\ pc' = "schema"
          /\ UNCHANGED changed /\ GoOn
     ELSE RootsBuilt(BuildRoots(schema, db,
                       [sel |-> EmptySelection, changed |-> FALSE, err |-> FALSE, e |-> NoError],
                       cfg.Subset.Roots))
  /\ UNCHANGED << inputVars, parVars, fsVars, trVars, pkVars, rounds, order, pragma, outTables, ddl,
                  output, ti, pendingChunks, cursor, transformers, post >>

\* the end of a round: the error is returned, or the loop condition is read
RoundDone(r) ==
  IF r.err THEN Fail(Errorf("expand selection", "", "")) /\ UNCHANGED << selection, changed >>
  ELSE selection' = r.sel /\ changed' = r.changed /\ UNCHANGED pc /\ GoOn

\* expandSelection: one round of `for changed`
ExpandRound ==
  /\ pc = "expand" /\ changed
  /\ rounds < MaxRounds
  /\ rounds' = rounds + 1
  /\ RoundDone(ExpandRoundOf(schema, db, selection))
  /\ UNCHANGED << inputVars, parVars, fsVars, trVars, pkVars, order, pragma, selNil, outTables, ddl,
                  output, ti, pendingChunks, cursor, transformers, post >>

\* expandSelection and BuildSelection return the selection
ExpandReturn ==
  /\ pc = "expand" /\ ~changed
  /\ selNil' = FALSE
  /\ pc' = "schema"
  /\ UNCHANGED << inputVars, parVars, fsVars, trVars, pkVars, err, rounds, order, pragma, selection,
                  changed, outTables, ddl, output, ti, pendingChunks, cursor, transformers, post >>

\* a mutant of CreateStatements: the tables are created in the order of their names
CreateStatementsByName(s, c, ord) ==
  LET names == SelectSeq(SortNames(SeqToSet(ord)), LAMBDA name : tableIncluded(c, name))
  IN  [n \in 1..Len(names) |-> s.Tables[names[n]].SQL]

\* the statements createSchema executes: tbl.SQL of every included table of `ord`
CreateStatements(s, c, ord) ==
  LET names == SelectSeq(ord, LAMBDA name : tableIncluded(c, name) /\ name \in DOMAIN s.Tables)
  IN  [n \in 1..Len(names) |-> s.Tables[names[n]].SQL]

\* the table a CREATE TABLE statement creates
TableOf(sql) == sql[2]

\* createSchema: the CREATE of every included table, in TableOrder, in one transaction
createSchema ==
  /\ pc = "schema"
  /\ ddl' = CreateStatements(schema, cfg, order)
  /\ outTables' = [n \in 1..Len(ddl') |-> TableOf(ddl'[n])]
  /\ output' = [name \in DOMAIN schema.Tables |-> << >>]
  /\ ti' = 1
  /\ pc' = "copy"
  /\ UNCHANGED << inputVars, parVars, fsVars, trVars, pkVars, err, rounds, order, pragma, selection,
                  selNil, changed, pendingChunks, cursor, transformers, post >>

\* buildOrderBy: the ORDER BY columns of copyTable's SELECT
buildOrderBy(tbl) ==
  IF Len(tbl.PrimaryKeys) > 0 THEN tbl.PrimaryKeys ELSE << "rowid" >>

\* copyTable with a PKSet: the tuples are sorted where they are stored and chunked
copySelected(name, sorted) ==
  /\ selection' = [selection EXCEPT ![name].Values = sorted]
  /\ pendingChunks' = chunkValues(sorted, ChunkSize)
  /\ pc' = "chunk"
  /\ UNCHANGED << ti, cursor >>

\* copyTable up to its first query; bt is what buildTransformers returned
copyTable(name, bt) ==
  IF bt.err
  THEN /\ \E col \in bt.bad : Fail(Errorf("build transformer", name, col))
       /\ UNCHANGED << ti, selection, pendingChunks, cursor, transformers >>
  ELSE /\ transformers' = bt.trs
       /\ GoOn
       /\ IF selNil
          THEN /\ cursor' = OrderBy(db[name], buildOrderBy(schema.Tables[name]))
               /\ pc' = "cursor"
               /\ UNCHANGED << ti, selection, pendingChunks >>
          ELSE copySelected(name, sortRows(selection[name].Values))

\* copyData's loop head: the table is skipped, or copyTable is called
copyTableBegin ==
  /\ pc = "copy" /\ ti <= Len(order)
  /\ IF \/ ~tableIncluded(cfg, order[ti])
        \/ ~selNil /\ order[ti] \notin DOMAIN selection
     THEN /\ ti' = ti + 1
          /\ UNCHANGED << pc, selection, pendingChunks, cursor, transformers >>
          /\ GoOn
     ELSE copyTable(order[ti], buildTransformers(cfg, order[ti]))
  /\ UNCHANGED << inputVars, parVars, fsVars, trVars, pkVars, rounds, order, pragma, selNil, changed,
                  outTables, ddl, output, post >>

\* copyTable: SELECT cols FROM table WHERE pk IN (chunk) ORDER BY pk
copyTableChunk ==
  /\ pc = "chunk" /\ pendingChunks # << >>
  /\ cursor' = OrderBy({ r \in db[order[ti]] :
                           InTuples(Project(r, selection[order[ti]].Cols), Head(pendingChunks)) },
                       buildOrderBy(schema.Tables[order[ti]]))
  /\ pendingChunks' = Tail(pendingChunks)
  /\ pc' = "cursor"
  /\ UNCHANGED << inputVars, parVars, fsVars, trVars, pkVars, err, rounds, order, pragma, selection,
                  selNil, changed, outTables, ddl, output, ti, transformers, post >>

\* copyTable returns after its last chunk
copyTableReturn ==
  /\ pc = "chunk" /\ pendingChunks = << >>
  /\ ti' = ti + 1
  /\ pc' = "copy"
  /\ UNCHANGED << inputVars, parVars, fsVars, trVars, pkVars, err, rounds, order, pragma, selection,
                  selNil, changed, outTables, ddl, output, pendingChunks, cursor, transformers,
                  post >>

\* the rest of a pass of `for rows.Next()`: t is the row after the transformers
InsertRow(tbl, row, t) ==
  IF t.err THEN Fail(Errorf("transform", tbl.Name, t.col)) /\ UNCHANGED << output, cursor >>
  ELSE IF InsertFails(schema, pragma, output, SeqToSet(outTables), tbl, t.values)
  THEN Fail(Errorf("insert", tbl.Name, "")) /\ UNCHANGED << output, cursor >>
  ELSE /\ output' = [output EXCEPT ![tbl.Name] = Append(@, [src |-> row, vals |-> t.values])]
       /\ cursor' = Tail(cursor)
       /\ UNCHANGED pc /\ GoOn

\* processRowsSequential: one pass of `for rows.Next()`
processRowsSequential ==
  /\ pc = "cursor" /\ cursor # << >>
  /\ \E cols \in Perms(DOMAIN transformers) :
       InsertRow(schema.Tables[order[ti]], Head(cursor),
                 TransformRow(schema.Tables[order[ti]], transformers, cols, Head(cursor)))
  /\ UNCHANGED << inputVars, parVars, fsVars, trVars, pkVars, rounds, order, pragma, selection, selNil,
                  changed, outTables, ddl, ti, pendingChunks, transformers, post >>

\* processRows returns nil: the next chunk, or the next table
processRowsReturn ==
  /\ pc = "cursor" /\ cursor = << >>
  /\ IF selNil THEN ti' = ti + 1 /\ pc' = "copy"
     ELSE pc' = "chunk" /\ UNCHANGED ti
  /\ UNCHANGED << inputVars, parVars, fsVars, trVars, pkVars, err, rounds, order, pragma, selection,
                  selNil, changed, outTables, ddl, output, pendingChunks, cursor, transformers,
                  post >>

\* copyData returns nil
copyDataReturn ==
  /\ pc = "copy" /\ ti > Len(order)
  /\ pc' = "post"
  /\ UNCHANGED << inputVars, parVars, fsVars, trVars, pkVars, err, rounds, order, pragma, selection,
                  selNil, changed, outTables, ddl, output, ti, pendingChunks, cursor, transformers,
                  post >>

\* a row of sqlite_master that is no table; SQL is the CREATE statement, which
\* names the table the item is on, or empty (an automatic index)
SQLItem(name, type, sql) == [Name |-> name, SQL |-> sql, Type |-> type]

\* a mutant of PostItems: the option is compared as it is spelled
PostItemsCaseSensitive(s, o) ==
  SelectSeq(s.Views \o s.Indexes \o (IF o.Triggers = "on" THEN s.Triggers ELSE << >>),
            LAMBDA item : item.SQL # << >>)

\* a mutant of PostItems: the triggers are created before the views and indexes
PostItemsTriggersFirst(s, o) ==
  SelectSeq((IF ToLower(o.Triggers) = "on" THEN s.Triggers ELSE << >>) \o s.Views \o s.Indexes,
            LAMBDA item : item.SQL # << >>)

\* the statements createPostDataSchema executes: views, indexes, then
\* triggers when enabled, without the items whose SQL is empty
PostItems(s, o) ==
  SelectSeq(s.Views \o s.Indexes \o (IF ToLower(o.Triggers) = "on" THEN s.Triggers ELSE << >>),
            LAMBDA item : item.SQL # << >>)

\* the engine refuses an index or a trigger on a table that does not exist
CreateFails(item, created) == item.Type # "view" /\ item.SQL[2] \notin created

\* the position of the first statement of items the engine refuses, 0 when
\* it executes them all
FirstFailure(items, created) ==
  IF \E n \in 1..Len(items) : CreateFails(items[n], created)
  THEN CHOOSE n \in 1..Len(items) :
         /\ CreateFails(items[n], created)
         /\ \A m \in 1..(n - 1) : ~CreateFails(items[m], created)
  ELSE 0

\* fmt.Errorf("create view|index|trigger %s: %w", item.Name, err)
PostError(item) ==
  Errorf(CASE item.Type = "view"  -> "create view"
           [] item.Type = "index" -> "create index"
           [] OTHER               -> "create trigger", "", "")

\* a mutant of Rollback: what the transaction executed stays in the output
RollbackKeeps(committed, executed) == committed \o executed

\* the deferred tx.Rollback after a failure: what the transaction executed is undone
Rollback(committed, executed) == committed

\* tx.Commit: what the transaction executed is in the output
Commit(committed, executed) == committed \o executed

\* createPostDataSchema after its statements ran: n is the first failure
PostDataDone(items, n) ==
  IF n > 0
  THEN /\ Fail(PostError(items[n]))
       /\ post' = Rollback(post, SubSeq(items, 1, n - 1))
  ELSE /\ post' = Commit(post, items)
       /\ pc' = "done"
       /\ GoOn

\* createPostDataSchema: one transaction, rolled back at the first failure
createPostDataSchema ==
  /\ pc = "post"
  /\ PostDataDone(PostItems(schema, opts),
                  FirstFailure(PostItems(schema, opts), SeqToSet(outTables)))
  /\ UNCHANGED << inputVars, parVars, fsVars, trVars, pkVars, rounds, order, pragma, selection, selNil,
                  changed, outTables, ddl, output, ti, pendingChunks, cursor, transformers >>

(***************************************************************************)
(* Spec: Run on every input database and configuration of the scenarios    *)
(* below.  A shape is a schema with the values each column takes; the      *)
(* primary key values are never NULL.                                      *)
(***************************************************************************)
I1  == IntV(1)
I2  == IntV(2)
I10 == IntV(10)
T2  == TextV(<< "2" >>)
US  == TextV(<< "U", "S" >>)
CA  == TextV(<< "C", "A" >>)
TA  == TextV(<< "A" >>)
TAC == TextV(<< "A", "|", "C" >>)
TS  == TextV(<< "S" >>)
TCS == TextV(<< "C", "|", "S" >>)

\* primary key values: 2 < 10 as integers, "10" < "2" as keys, and the
\* integer 2 and the text 2 have the same key
PKDom == {I2, I10, T2}
RefDom == {NULL, I2, T2}
IntDom == {I2, I10}

Shape(tables, items, dom) ==
  [schema |-> [Tables |-> tables, Views |-> items.Views, Indexes |-> items.Indexes,
               Triggers |-> items.Triggers],
   dom |-> dom]

NoSQLItems == [Views |-> NoItems, Indexes |-> NoItems, Triggers |-> NoItems]

Users == Table("users", << "id", "country" >>, << "id" >>, << >>, FALSE)

Orders ==
  Table("orders", << "id", "user_id" >>, << "id" >>,
        << ForeignKey(0, 0, "users", "user_id", "id") >>, FALSE)

\* S2: users(id PK, country), orders(id PK, user_id -> users.id); the key
\* columns have no type affinity
UsersOrders ==
  Shape("users" :> Users @@ "orders" :> Orders, NoSQLItems,
        "users"  :> ("id" :> PKDom @@ "country" :> {US, CA}) @@
        "orders" :> ("id" :> PKDom @@ "user_id" :> RefDom))

\* the same schema with integer keys, a view, an index on users, an
\* automatic index and a trigger on orders
UsersOrdersItems ==
  Shape("users" :> Users @@ "orders" :> Orders,
        [Views    |-> << SQLItem("v", "view", << "CREATE VIEW", "users" >>) >>,
         Indexes  |-> << SQLItem("idx", "index", << "CREATE INDEX", "users" >>),
                         SQLItem("idx_orders", "index", << "CREATE INDEX", "orders" >>),
                         SQLItem("sqlite_autoindex", "index", << >>) >>,
         Triggers |-> << SQLItem("trg", "trigger", << "CREATE TRIGGER", "orders" >>) >>],
        "users"  :> ("id" :> IntDom @@ "country" :> {US}) @@
        "orders" :> ("id" :> IntDom @@ "user_id" :> {NULL, I2, I10}))

\* t(id PK, parent -> t.id): a table that references itself
SelfRef ==
  Shape("t" :> Table("t", << "id", "parent" >>, << "id" >>,
                     << ForeignKey(0, 0, "t", "parent", "id") >>, FALSE),
        NoSQLItems,
        "t" :> ("id" :> IntDom @@ "parent" :> {NULL, I2, I10}))

\* a(id PK, ref -> b.id), b(id PK, ref -> a.id): a cycle of two tables
Cycle ==
  Shape("a" :> Table("a", << "id", "ref" >>, << "id" >>,
                     << ForeignKey(0, 0, "b", "ref", "id") >>, FALSE) @@
        "b" :> Table("b", << "id", "ref" >>, << "id" >>,
                     << ForeignKey(0, 0, "a", "ref", "id") >>, FALSE),
        NoSQLItems,
        "a" :> ("id" :> IntDom @@ "ref" :> {NULL, I2, I10}) @@
        "b" :> ("id" :> IntDom @@ "ref" :> {NULL, I2, I10}))

CompositeDom ==
  "p" :> ("x" :> {TA, TAC} @@ "y" :> {TS, TCS}) @@
  "c" :> ("id" :> IntDom @@ "px" :> {TA, TAC} @@ "py" :> {TS, TCS})

\* p(x, y, PK(x, y)), c(id PK, px, py, FK(px, py) -> p(x, y)): text keys that hold a |
Composite ==
  Shape("p" :> Table("p", << "x", "y" >>, << "x", "y" >>, << >>, FALSE) @@
        "c" :> Table("c", << "id", "px", "py" >>, << "id" >>,
                     << ForeignKey(0, 0, "p", "px", "x"),
                        ForeignKey(0, 1, "p", "py", "y") >>, FALSE),
        NoSQLItems, CompositeDom)

\* the same with the constraint written FK(py, px) -> p(y, x)
CompositePermuted ==
  Shape("p" :> Table("p", << "x", "y" >>, << "x", "y" >>, << >>, FALSE) @@
        "c" :> Table("c", << "id", "px", "py" >>, << "id" >>,
                     << ForeignKey(0, 0, "p", "py", "y"),
                        ForeignKey(0, 1, "p", "px", "x") >>, FALSE),
        NoSQLItems, CompositeDom)

\* p(id PK), c(ref -> p.id) without a primary key: c is selected by rowid
RowidChild ==
  Shape("p" :> Table("p", << "id" >>, << "id" >>, << >>, FALSE) @@
        "c" :> Table("c", << "ref" >>, << >>,
                     << ForeignKey(0, 0, "p", "ref", "id") >>, FALSE),
        NoSQLItems,
        "p" :> ("id" :> IntDom) @@
        "c" :> ("rowid" :> {I1, I2} @@ "ref" :> {NULL, I2}))

\* p(id PK, u UNIQUE), c(id PK, ref -> p.u): a reference to a column that is
\* not the primary key
UniqueRef ==
  Shape("p" :> Table("p", << "id", "u" >>, << "id" >>, << >>, FALSE) @@
        "c" :> Table("c", << "id", "ref" >>, << "id" >>,
                     << ForeignKey(0, 0, "p", "ref", "u") >>, FALSE),
        NoSQLItems,
        "p" :> ("id" :> {I2} @@ "u" :> {US, CA}) @@
        "c" :> ("id" :> {I2} @@ "ref" :> {NULL, US}))

\* the rows a table of a shape can hold
RowsOf(shape, name) ==
  { r \in [DOMAIN shape.dom[name] -> UNION { shape.dom[name][c] : c \in DOMAIN shape.dom[name] }] :
      \A c \in DOMAIN shape.dom[name] : r[c] \in shape.dom[name][c] }

\* the contents a table can have: at most MaxRows rows with distinct primary keys
ContentsOf(shape, name) ==
  { SeqToSet(q) : q \in { q \in SeqsUpTo(RowsOf(shape, name), MaxRows) :
      \A m, n \in 1..Len(q) : m < n =>
        TupleLess(Project(q[m], buildOrderBy(shape.schema.Tables[name])),
                  Project(q[n], buildOrderBy(shape.schema.Tables[name]))) } }

\* the input databases of a shape
Databases(shape) ==
  { d \in [DOMAIN shape.schema.Tables ->
             UNION { ContentsOf(shape, name) : name \in DOMAIN shape.schema.Tables }] :
      \A name \in DOMAIN d : d[name] \in ContentsOf(shape, name) }

NoTableConfig == [name \in {} |-> 0]

\* a subset root
Root(table, col, val, limit) ==
  [Table |-> table, Where |-> [col |-> col, val |-> val], Limit |-> limit]

\* config.Config
Config(include, exclude, tables, subset) ==
  [IncludeTables |-> include, ExcludeTables |-> exclude, Tables |-> tables, Subset |-> subset]

\* a configuration that only subsets, from the given roots
SubsetConfig(roots) ==
  Config(<< >>, << >>, NoTableConfig, [nil |-> FALSE, Roots |-> roots])

\* a configuration without a subset section
CopyConfig(include, exclude, tables) ==
  Config(include, exclude, tables, [nil |-> TRUE, Roots |-> << >>])

\* config.TransformConfig
Transformer(type, value) == [Type |-> type, Value |-> value]

\* copy.Options
Options(fk, triggers, subset) ==
  [FKMode |-> fk, Triggers |-> triggers, Jobs |-> 1, Subset |-> subset]

\* subsetting, one list of roots per run
SubsetScenarios ==
  { [shape |-> UsersOrders,
     cfgs  |-> { SubsetConfig(<< r >>) :
                   r \in { Root("users", "", NULL, 0), Root("users", "country", US, 1),
                           Root("orders", "", NULL, 0), Root("orders", "", NULL, 1) } },
     opts  |-> { Options(fk, "off", TRUE) : fk \in {"on", "off"} }],
    [shape |-> SelfRef,
     cfgs  |-> { SubsetConfig(<< r >>) :
                   r \in { Root("t", "", NULL, 0), Root("t", "", NULL, 1) } },
     opts  |-> { Options(fk, "off", TRUE) : fk \in {"on", "off"} }],
    [shape |-> Cycle,
     cfgs  |-> { SubsetConfig(<< Root("a", "", NULL, 1) >>),
                 SubsetConfig(<< Root("b", "", NULL, 0) >>) },
     opts  |-> { Options(fk, "off", TRUE) : fk \in {"on", "off"} }],
    [shape |-> Composite,
     cfgs  |-> { SubsetConfig(<< Root("c", "", NULL, 0) >>),
                 SubsetConfig(<< Root("p", "", NULL, 1) >>) },
     opts  |-> { Options(fk, "off", TRUE) : fk \in {"on", "off"} }],
    [shape |-> CompositePermuted,
     cfgs  |-> { SubsetConfig(<< Root("c", "", NULL, 1) >>),
                 SubsetConfig(<< Root("p", "", NULL, 0) >>) },
     opts  |-> { Options("on", "off", FALSE) }],
    [shape |-> RowidChild,
     cfgs  |-> { SubsetConfig(<< Root("c", "", NULL, 1) >>),
                 SubsetConfig(<< Root("p", "", NULL, 1) >>),
                 SubsetConfig(<< Root("p", "", NULL, 1), Root("c", "", NULL, 1) >>) },
     opts  |-> { Options(fk, "off", TRUE) : fk \in {"on", "off"} }],
    [shape |-> UniqueRef,
     cfgs  |-> { SubsetConfig(<< Root("c", "", NULL, 0) >>),
                 SubsetConfig(<< Root("p", "", NULL, 0) >>),
                 SubsetConfig(<< Root("", "", NULL, 0), Root("zz", "", NULL, 0) >>) },
     opts  |-> { Options("on", "off", TRUE) }] }

\* the per-table transformer sections drawn for the copy scenarios
TableConfigs ==
  { NoTableConfig,
    "orders" :> [Columns |-> "user_id" :> Transformer("SetValue", I10)],
    "orders" :> [Columns |-> "user_id" :> Transformer("rejectnil", NULL)],
    "orders" :> [Columns |-> "user_id" :> Transformer("setnull", NULL) @@
                             "ghost"   :> Transformer("setvalue", I10)],
    "users"  :> [Columns |-> "country" :> Transformer("bogus", NULL)] }

\* copying without a subset, and subsetting requested without roots
CopyScenarios ==
  { [shape |-> UsersOrdersItems,
     cfgs  |-> { CopyConfig(<< >>, << >>, tc) : tc \in TableConfigs }
               \cup { CopyConfig(<< >>, << "users" >>, NoTableConfig),
                      CopyConfig(<< "orders" >>, << >>, NoTableConfig),
                      CopyConfig(<< "*" >>, << "orders" >>, NoTableConfig),
                      CopyConfig(<< "zz", "u*" >>, << "[" >>, NoTableConfig) },
     opts  |-> { Options(fk, tr, FALSE) : fk \in {"on", "off"}, tr \in {"on", "off"} }],
    [shape |-> UsersOrdersItems,
     cfgs  |-> { CopyConfig(<< >>, << >>, NoTableConfig) },
     opts  |-> { Options("ON", "ON", FALSE), Options("sometimes", "off", FALSE),
                 Options("on", "off", TRUE), Options("off", "On", FALSE),
                 Options("off", "yes", FALSE), Options("off", "", FALSE) }],
    [shape |-> UsersOrdersItems,
     cfgs  |-> { SubsetConfig(<< >>) },
     opts  |-> { Options("on", "off", FALSE) }],
    [shape |-> UsersOrders,
     cfgs  |-> { CopyConfig(<< >>, << "orders" >>, NoTableConfig),
                 CopyConfig(<< "orders" >>, << >>, NoTableConfig) },
     opts  |-> { Options(fk, "off", FALSE) : fk \in {"on", "off"} }] }

RunInit(shape, d, c, o) ==
  /\ schema = shape.schema
  /\ iter = SortNames(DOMAIN shape.schema.Tables)
  /\ order = << >> /\ opc = "idle"
  /\ db = d /\ cfg = c /\ opts = o
  /\ pc = "start" /\ pragma = "unset"
  /\ selection = EmptySelection /\ selNil = TRUE /\ changed = FALSE /\ rounds = 0
  /\ outTables = << >> /\ ddl = << >> /\ output = << >> /\ ti = 0
  /\ pendingChunks = << >> /\ cursor = << >> /\ transformers = << >> /\ post = << >>
  /\ err = NoError
  /\ ParIdle
  /\ TrIdle
  /\ PKIdle
  /\ FsIdle

Init ==
  \E sc \in SubsetScenarios \cup CopyScenarios :
    \E d \in Databases(sc.shape) : \E c \in sc.cfgs : \E o \in sc.opts :
      RunInit(sc.shape, d, c, o)

Next ==
  \/ RunBegin
  \/ BuildSelectionRoots
  \/ ExpandRound
  \/ ExpandReturn
  \/ createSchema
  \/ copyTableBegin
  \/ copyTableChunk
  \/ copyTableReturn
  \/ processRowsSequential
  \/ processRowsReturn
  \/ copyDataReturn
  \/ createPostDataSchema

Spec == Init /\ [][Next]_vars

\* Run is scheduled until it returns
(***************************************************************************)
(* copy.processRowsParallel: the calling goroutine (the reader) and the    *)
(* worker goroutines.  A channel is the sequence of the values it buffers; *)
(* a send waits while the buffer is full, a receive while it is empty.     *)
(***************************************************************************)
\* the variables processRowsParallel does not touch
otherVars == << ordVars, runVars, trVars, pkVars, fsVars >>

\* the output connection as the prepared INSERT of the call sees it: the one
\* table, holding the rows executed so far
OneTable(tbl) ==
  [Tables |-> (tbl.Name :> tbl), Views |-> NoItems, Indexes |-> NoItems, Triggers |-> NoItems]

\* stmt.ExecContext(ctx, values...) fails after the executions ins
ExecContextFails(a, ins, values) ==
  InsertFails(OneTable(a.tbl), a.fk, a.tbl.Name :> ins, {a.tbl.Name}, a.tbl, values)

\* what flush works on and whether it returned an error
FlushState(p, n, ins) ==
  [err |-> FALSE, e |-> NoError, pending |-> p, nextIndex |-> n, inserted |-> ins]

\* a mutant of flush: the result is executed when it arrives
flushOnArrival(a, st, res) ==
  IF res.err THEN [st EXCEPT !.err = TRUE, !.e = res.e]
  ELSE IF ExecContextFails(a, st.inserted, res.values)
  THEN [st EXCEPT !.err = TRUE, !.e = Errorf("insert", a.tbl.Name, "")]
  ELSE [st EXCEPT !.inserted = Append(@, [index |-> res.index, vals |-> res.values])]

RECURSIVE FlushPendingAny(_, _)
\* a mutant of flush's `for`: every result that waits is executed, lowest
\* index first
FlushPendingAny(a, st) ==
  IF DOMAIN st.pending = {} THEN st
  ELSE IF ExecContextFails(a, st.inserted,
            st.pending[CHOOSE i \in DOMAIN st.pending : \A j \in DOMAIN st.pending : i <= j].values)
  THEN [st EXCEPT !.err = TRUE, !.e = Errorf("insert", a.tbl.Name, "")]
  ELSE FlushPendingAny(a,
         [err       |-> FALSE,
          e         |-> NoError,
          pending   |-> [i \in DOMAIN st.pending \
                               {CHOOSE i \in DOMAIN st.pending : \A j \in DOMAIN st.pending : i <= j}
                           |-> st.pending[i]],
          nextIndex |-> st.nextIndex + 1,
          inserted  |-> Append(st.inserted,
                          [index |-> (CHOOSE i \in DOMAIN st.pending :
                                        \A j \in DOMAIN st.pending : i <= j),
                           vals  |-> st.pending[CHOOSE i \in DOMAIN st.pending :
                                                  \A j \in DOMAIN st.pending : i <= j].values])])

RECURSIVE FlushPending(_, _)
\* flush's `for`: pending[nextIndex] is executed and deleted while it is there
FlushPending(a, st) ==
  IF st.nextIndex \notin DOMAIN st.pending THEN st
  ELSE IF ExecContextFails(a, st.inserted, st.pending[st.nextIndex].values)
  THEN [st EXCEPT !.err = TRUE, !.e = Errorf("insert", a.tbl.Name, "")]
  ELSE FlushPending(a,
         [err       |-> FALSE,
          e         |-> NoError,
          pending   |-> [i \in DOMAIN st.pending \ {st.nextIndex} |-> st.pending[i]],
          nextIndex |-> st.nextIndex + 1,
          inserted  |-> Append(st.inserted, [index |-> st.pending[st.nextIndex].index,
                                             vals  |-> st.pending[st.nextIndex].values])])

\* flush: an error result is returned at once, any other result is filed
\* under its index and the results that are next in turn are executed
flush(a, st, res) ==
  IF res.err THEN [st EXCEPT !.err = TRUE, !.e = res.e]
  ELSE FlushPending(a, [st EXCEPT !.pending = (res.index :> res) @@ @])

\* the reader's variables after flush returned st
Flushed(st) ==
  /\ pending' = st.pending
  /\ nextIndex' = st.nextIndex
  /\ inserted' = st.inserted

\* a mutant of Capacity: the channels buffer one value per worker
CapacityJobs(jobs) == jobs

\* make(chan job, jobs*2), make(chan result, jobs*2)
Capacity(jobs) == jobs * 2

\* a mutant of Backpressure: the reader waits one row later
BackpressureLate(n, jobs) == n > (jobs * 2) + 1

\* `inflight > jobs*2`: the reader receives results before it scans on
Backpressure(n, jobs) == n > jobs * 2

\* rows.Next, rows.Scan, buildRowContext, `jobsCh <- job`, inflight++, index++
ReaderSend ==
  /\ reader = "scan" /\ unread # << >>
  /\ Len(jobsCh) < Capacity(args.jobs)
  /\ jobsCh' = Append(jobsCh, [index |-> index, values |-> RowValues(args.tbl, Head(unread))])
  /\ unread' = Tail(unread)
  /\ inflight' = inflight + 1
  /\ index' = index + 1
  /\ reader' = "gate"
  /\ UNCHANGED << otherVars, args, ret, jobsClosed, resultsCh, pending, nextIndex, workers, drain,
                  inserted >>

\* rows.Scan returns an error: close(jobsCh), return
ReaderScanFail ==
  /\ reader = "scan" /\ unread # << >>
  /\ jobsClosed' = TRUE
  /\ reader' = "failed"
  /\ ret' = Errorf("scan row", args.tbl.Name, "")
  /\ UNCHANGED << otherVars, args, unread, index, inflight, jobsCh, resultsCh, pending, nextIndex,
                  workers, drain, inserted >>

\* `if err := flush(res); err != nil { close(jobsCh); return err }`
GateFlushed(st) ==
  /\ Flushed(st)
  /\ IF st.err THEN jobsClosed' = TRUE /\ reader' = "failed" /\ ret' = st.e
     ELSE UNCHANGED << jobsClosed, reader, ret >>

\* one pass of `for inflight > jobs*2`
ReaderGateRecv ==
  /\ reader = "gate" /\ Backpressure(inflight, args.jobs)
  /\ resultsCh # << >>
  /\ resultsCh' = Tail(resultsCh)
  /\ inflight' = inflight - 1
  /\ GateFlushed(flush(args, FlushState(pending, nextIndex, inserted), Head(resultsCh)))
  /\ UNCHANGED << otherVars, args, unread, index, jobsCh, workers, drain >>

\* `for inflight > jobs*2` is left
ReaderGatePass ==
  /\ reader = "gate" /\ ~Backpressure(inflight, args.jobs)
  /\ reader' = "scan"
  /\ UNCHANGED << otherVars, args, ret, unread, index, inflight, jobsCh, jobsClosed, resultsCh,
                  pending, nextIndex, workers, drain, inserted >>

\* rows.Next returns false: close(jobsCh), `i := 0`
ReaderClose ==
  /\ reader = "scan" /\ unread = << >>
  /\ jobsClosed' = TRUE
  /\ drain' = 0
  /\ reader' = "drain"
  /\ UNCHANGED << otherVars, args, ret, unread, index, inflight, jobsCh, resultsCh, pending,
                  nextIndex, workers, inserted >>

\* `if err := flush(res); err != nil { return err }`
DrainFlushed(st) ==
  /\ Flushed(st)
  /\ IF st.err THEN reader' = "failed" /\ ret' = st.e /\ UNCHANGED drain
     ELSE drain' = drain + 1 /\ UNCHANGED << reader, ret >>

\* one pass of `for i := 0; i < inflight; i++`
ReaderDrain ==
  /\ reader = "drain" /\ drain < inflight
  /\ resultsCh # << >>
  /\ resultsCh' = Tail(resultsCh)
  /\ DrainFlushed(flush(args, FlushState(pending, nextIndex, inserted), Head(resultsCh)))
  /\ UNCHANGED << otherVars, args, unread, index, inflight, jobsCh, jobsClosed, workers >>

\* the last loop is left, rows.Err is nil: return nil
ReaderReturn ==
  /\ reader = "drain" /\ drain >= inflight
  /\ reader' = "done"
  /\ UNCHANGED << otherVars, args, ret, unread, index, inflight, jobsCh, jobsClosed, resultsCh,
                  pending, nextIndex, workers, drain, inserted >>

\* a worker that holds no result
NoResult == [index |-> 0, values |-> << >>, err |-> FALSE, e |-> NoError]

\* the result of job j, t what the transformers made of its values
ResultOf(j, t) ==
  IF t.err THEN [index |-> j.index, values |-> << >>, err |-> TRUE, e |-> PluginError]
  ELSE [index |-> j.index, values |-> t.values, err |-> FALSE, e |-> NoError]

\* a worker takes a job and applies the transformers in the order its
\* `range transformers` happens to take
WorkerRecv(w) ==
  /\ workers[w].pc = "recv" /\ jobsCh # << >>
  /\ jobsCh' = Tail(jobsCh)
  /\ \E cols \in Perms(DOMAIN args.transformers) :
       workers' = [workers EXCEPT ![w] =
                     [pc  |-> "send",
                      res |-> ResultOf(Head(jobsCh),
                                ApplyTransformers(args.tbl, args.transformers, cols,
                                  [err |-> FALSE, values |-> Head(jobsCh).values,
                                   col |-> ""]))]]
  /\ UNCHANGED << otherVars, args, ret, unread, index, inflight, jobsClosed, resultsCh, pending,
                  nextIndex, reader, drain, inserted >>

\* `resultsCh <- result{...}`
WorkerSend(w) ==
  /\ workers[w].pc = "send"
  /\ Len(resultsCh) < Capacity(args.jobs)
  /\ resultsCh' = Append(resultsCh, workers[w].res)
  /\ workers' = [workers EXCEPT ![w] = [pc |-> "recv", res |-> NoResult]]
  /\ UNCHANGED << otherVars, args, ret, unread, index, inflight, jobsCh, jobsClosed, pending,
                  nextIndex, reader, drain, inserted >>

\* `for j := range jobsCh` ends: the channel is closed and empty
WorkerExit(w) ==
  /\ workers[w].pc = "recv" /\ jobsCh = << >> /\ jobsClosed
  /\ workers' = [workers EXCEPT ![w] = [pc |-> "exit", res |-> NoResult]]
  /\ UNCHANGED << otherVars, args, ret, unread, index, inflight, jobsCh, jobsClosed, resultsCh,
                  pending, nextIndex, reader, drain, inserted >>

(***************************************************************************)
(* SpecParallel: one call of processRowsParallel.                          *)
(***************************************************************************)
\* t(v, id PK): the first column is not the key
Scanned == Table("t", << "v", "id" >>, << "id" >>, << >>, FALSE)

\* a result set of n rows in primary key order; v is NULL in the rows nulls
ResultSet(n, nulls) ==
  [k \in 1..n |-> [v |-> IF k \in nulls THEN NULL ELSE US, id |-> IntV(k)]]

\* the transformers of the call: one that never fails, one that fails on
\* NULL, one that makes every primary key the same, and two that hit the
\* same cell because `ghost` is not a column of the table
ScanTransformers ==
  { "v"  :> Transformer("setnull", NULL),
    "v"  :> Transformer("rejectnil", NULL),
    "id" :> Transformer("setvalue", I2),
    "v"  :> Transformer("setvalue", CA) @@ "ghost" :> Transformer("setnull", NULL) }

InitParallel ==
  /\ \E n \in 0..MaxScan : \E nulls \in { {} } \cup { {k} : k \in 1..n } :
       \E trs \in ScanTransformers : \E jobs \in 2..MaxJobs :
         /\ args = [tbl |-> Scanned, fk |-> "on", transformers |-> trs, jobs |-> jobs,
                    rows |-> ResultSet(n, nulls)]
         /\ unread = ResultSet(n, nulls)
         /\ workers = [w \in 1..jobs |-> [pc |-> "recv", res |-> NoResult]]
  /\ index = 0 /\ inflight = 0
  /\ jobsCh = << >> /\ jobsClosed = FALSE /\ resultsCh = << >>
  /\ pending = << >> /\ nextIndex = 0
  /\ reader = "scan" /\ drain = 0 /\ inserted = << >> /\ ret = NoError
  /\ schema = << >> /\ iter = << >> /\ order = << >> /\ opc = "idle"
  /\ RunIdle
  /\ TrIdle
  /\ PKIdle
  /\ FsIdle

NextParallel ==
  \/ ReaderSend
  \/ ReaderScanFail
  \/ ReaderGateRecv
  \/ ReaderGatePass
  \/ ReaderClose
  \/ ReaderDrain
  \/ ReaderReturn
  \/ \E w \in DOMAIN workers : WorkerRecv(w)
  \/ \E w \in DOMAIN workers : WorkerSend(w)
  \/ \E w \in DOMAIN workers : WorkerExit(w)

SpecParallel == InitParallel /\ [][NextParallel]_vars

(***************************************************************************)
(* SpecChunk: one run that subsets a table of one row more than a chunk    *)
(* of primary keys holds.                                                  *)
(***************************************************************************)
\* t(id PK) with the integer keys 1, 2, ...
Counted ==
  Shape("t" :> Table("t", << "id" >>, << "id" >>, << >>, FALSE), NoSQLItems,
        "t" :> ("id" :> { IntV(n) : n \in 1..(ChunkSize + 1) }))

InitChunk ==
  \E n \in {ChunkSize, ChunkSize + 1} :
    RunInit(Counted, "t" :> { [id |-> IntV(m)] : m \in 1..n },
            SubsetConfig(<< Root("t", "", NULL, 0) >>), Options("on", "off", TRUE))

SpecChunk == InitChunk /\ [][Next]_vars

(***************************************************************************)
(* package transform: the built-in transformers.  SHA-256 is modelled by a *)
(* digest of DigestLen bytes, each computed from every byte of the input   *)
(* in order; int64 by the signed integers of SeedLen bytes; the source of  *)
(* math/rand by the multiplicative generator rngSource.Seed runs on the    *)
(* seed.  Texts are sequences of characters, or of words where a           *)
(* transformer composes its output from a word list.                       *)
(***************************************************************************)
\* bytes of a digest in the model (sha256.Size is 32)
DigestLen == 3
\* bytes of an int64 in the model (8 in Go): RowSeed reads that many bytes
\* of the digest
SeedLen == 2

RECURSIVE Pow(_, _)
Pow(b, n) == IF n = 0 THEN 1 ELSE b * Pow(b, n - 1)

RECURSIVE Xor(_, _)
\* x ^ y on non-negative integers
Xor(x, y) ==
  IF x = 0 THEN y
  ELSE IF y = 0 THEN x
  ELSE (2 * Xor(x \div 2, y \div 2)) + ((x + y) % 2)

\* the int64 of the model as the unsigned number of the same bits, and back
Unsigned(x) == IF x < 0 THEN x + Pow(256, SeedLen) ELSE x
Signed(u) == IF u >= Pow(256, SeedLen) \div 2 THEN u - Pow(256, SeedLen) ELSE u

\* x ^ y on int64
Xor64(x, y) == Signed(Xor(Unsigned(x), Unsigned(y)))

\* []byte(str): a character is the byte of its place in Alphabet
Bytes(str) == [n \in 1..Len(str) |-> CharCode(str[n])]

\* []byte(row.Table): a table name is one symbol of the model, apart from
\* every character
NameBytes(name) == << 100 + NameRank(name) >>

RECURSIVE Absorb(_, _, _)
\* byte k of the digest after the bytes data were written
Absorb(k, h, data) ==
  IF data = << >> THEN h
  ELSE Absorb(k, ((h * (29 + 2 * k)) + Head(data) + k) % 256, Tail(data))

\* sha256.Sum256(data), h.Sum(nil) after h.Write(data)
Sum256(data) == [k \in 1..DigestLen |-> Absorb(k, 7 * k, data)]

\* hmac.New(sha256.New, key) after Write(msg): the digest of the key under
\* the outer pad and the digest of the key under the inner pad and msg
HmacSum(key, msg) ==
  Sum256([n \in 1..Len(key) |-> Xor(key[n], 92)] \o
         Sum256([n \in 1..Len(key) |-> Xor(key[n], 54)] \o msg))

HexDigits ==
  << "0", "1", "2", "3", "4", "5", "6", "7", "8", "9", "a", "b", "c", "d", "e", "f" >>

RECURSIVE EncodeToString(_)
\* hex.EncodeToString
EncodeToString(bytes) ==
  IF bytes = << >> THEN << >>
  ELSE << HexDigits[(Head(bytes) \div 16) + 1], HexDigits[(Head(bytes) % 16) + 1] >>
       \o EncodeToString(Tail(bytes))

\* base32.StdEncoding's alphabet after strings.ToLower
Base32Lower ==
  << "a", "b", "c", "d", "e", "f", "g", "h", "i", "j", "k", "l", "m", "n", "o", "p",
     "q", "r", "s", "t", "u", "v", "w", "x", "y", "z", "2", "3", "4", "5", "6", "7" >>

\* bit n of the bytes, counted from 1 at the most significant bit of the
\* first byte; 0 past the last byte
BitAt(bytes, n) ==
  IF n > 8 * Len(bytes) THEN 0
  ELSE (bytes[((n - 1) \div 8) + 1] \div Pow(2, 7 - ((n - 1) % 8))) % 2

\* the 5-bit group g of the bytes
Quintet(bytes, g) ==
  16 * BitAt(bytes, 5 * g - 4) + 8 * BitAt(bytes, 5 * g - 3) + 4 * BitAt(bytes, 5 * g - 2)
  + 2 * BitAt(bytes, 5 * g - 1) + BitAt(bytes, 5 * g)

\* strings.ToLower(base32.StdEncoding.WithPadding(NoPadding).EncodeToString(bytes))
EncodeBase32Lower(bytes) ==
  [g \in 1..((8 * Len(bytes) + 4) \div 5) |-> Base32Lower[Quintet(bytes, g) + 1]]

\* out[:maxLen] when maxLen > 0 && maxLen < len(out)
Truncate(out, maxLen) ==
  IF maxLen > 0 /\ maxLen < Len(out) THEN SubSeq(out, 1, maxLen) ELSE out

\* transform.RowContext
RowContext(table, pk, seed, salt) == [Table |-> table, PK |-> pk, Seed |-> seed, Salt |-> salt]

\* what Transform returns: a value and a nil error
Value(v) == [err |-> FALSE, val |-> v]

NewHashSha256(salt, maxLen) == [name |-> "HashSha256", salt |-> salt, maxLen |-> maxLen]

HashSha256Transform(t, value, row) ==
  IF value = NULL THEN Value(NULL)
  ELSE Value(TextV(Truncate(EncodeToString(Sum256(Bytes(t.salt \o Sprint(value)))), t.maxLen)))

NewHmacSha256(salt, maxLen) == [name |-> "HmacSha256", key |-> Bytes(salt), maxLen |-> maxLen]

\* a mutant of HmacSha256.Transform: the seed of the run is written to the MAC
HmacSha256TransformSeeded(t, value, row) ==
  IF value = NULL THEN Value(NULL)
  ELSE Value(TextV(Truncate(EncodeToString(
               HmacSum(t.key, Bytes(Sprint(value)) \o << Unsigned(row.Seed) % 256 >>)),
             t.maxLen)))

HmacSha256Transform(t, value, row) ==
  IF value = NULL THEN Value(NULL)
  ELSE Value(TextV(Truncate(EncodeToString(HmacSum(t.key, Bytes(Sprint(value)))), t.maxLen)))

\* the length a token is cut to when maxlen is 0
TokenLen == 16

NewStableTokenize(maxLen) == [name |-> "StableTokenize", maxLen |-> maxLen]

\* the token of a digest: maxLen characters, TokenLen when maxLen is 0
Token(out, maxLen) ==
  IF maxLen > 0 /\ maxLen < Len(out) THEN SubSeq(out, 1, maxLen)
  ELSE IF maxLen = 0 /\ Len(out) > TokenLen THEN SubSeq(out, 1, TokenLen)
  ELSE out

StableTokenizeTransform(t, value, row) ==
  IF value = NULL THEN Value(NULL)
  ELSE Value(TextV(Token(EncodeBase32Lower(Sum256(Bytes(row.Salt \o Sprint(value)))),
                         t.maxLen)))

\* regexp.Compile on the patterns of the model: a character class repeated,
\* a literal character, or a pattern that does not compile
Compile(pattern) ==
  CASE pattern = "[0-9]+" -> [err |-> FALSE,
                              class |-> {"0", "1", "2", "3", "4", "5", "6", "7", "8", "9"}]
    [] pattern = "U"      -> [err |-> FALSE, class |-> {"U"}]
    [] OTHER              -> [err |-> TRUE, class |-> {}]

NewRegexReplace(pattern, repl) ==
  [err |-> Compile(pattern).err,
   tr  |-> [name |-> "RegexReplace", re |-> pattern, repl |-> repl]]

RECURSIVE ReplaceAllString(_, _, _, _)
\* re.ReplaceAllString(src, repl): every leftmost longest match is replaced;
\* matched tells that the character before src was part of a match of a
\* repeated class
ReplaceAllString(re, src, repl, matched) ==
  IF src = << >> THEN << >>
  ELSE IF Head(src) \in Compile(re).class
  THEN (IF matched /\ re = "[0-9]+" THEN << >> ELSE repl)
       \o ReplaceAllString(re, Tail(src), repl, TRUE)
  ELSE << Head(src) >> \o ReplaceAllString(re, Tail(src), repl, FALSE)

RegexReplaceTransform(t, value, row) ==
  IF value = NULL THEN Value(NULL)
  ELSE Value(TextV(ReplaceAllString(t.re, Sprint(value), t.repl, FALSE)))

SetNull == [name |-> "SetNull"]

SetNullTransform(t, value, row) == Value(NULL)

NewSetValue(v) == [name |-> "SetValue", value |-> v]

SetValueTransform(t, value, row) == Value(t.value)

NewMapReplace(m) == [name |-> "MapReplace", m |-> m]

MapReplaceTransform(t, value, row) ==
  IF value = NULL THEN Value(NULL)
  ELSE IF Sprint(value) \in DOMAIN t.m THEN Value(TextV(t.m[Sprint(value)]))
  ELSE Value(TextV(Sprint(value)))

firstNames ==
  << "Alex", "Jamie", "Taylor", "Jordan", "Morgan", "Casey", "Riley", "Avery", "Parker", "Reese" >>
lastNames ==
  << "Smith", "Johnson", "Lee", "Brown", "Davis", "Miller", "Wilson", "Moore", "Clark", "Hall" >>
emailDomains == << "example.com", "mail.local", "demo.test", "sample.org" >>
streetNames ==
  << "Oak", "Maple", "Cedar", "Pine", "Elm", "Birch", "Willow", "Lake", "Hill", "Sunset" >>
cityNames ==
  << "Springfield", "Riverton", "Fairview", "Franklin", "Greenville", "Bristol", "Clinton",
     "Georgetown" >>
stateCodes == << "CA", "NY", "TX", "FL", "WA", "IL", "PA", "AZ" >>

RECURSIVE WriteAll(_)
\* the bytes h.Write received for the primary key values
WriteAll(pk) == IF pk = << >> THEN << >> ELSE Bytes(Sprint(Head(pk))) \o WriteAll(Tail(pk))

RECURSIVE ReadInt64(_, _)
\* `seed = (seed << 8) | int64(b)` over the bytes, as the unsigned number of its bits
ReadInt64(seed, bytes) ==
  IF bytes = << >> THEN seed
  ELSE ReadInt64(((seed * 256) % Pow(256, SeedLen)) + Head(bytes), Tail(bytes))

\* the `seed` of RowSeed before the test for 0
HashSeed(row) ==
  Signed(ReadInt64(0, SubSeq(Sum256(Bytes(row.Salt) \o NameBytes(row.Table) \o WriteAll(row.PK)),
                             1, SeedLen)))

\* RowSeed
RowSeed(row) ==
  Xor64(IF HashSeed(row) = 0 THEN row.Seed ELSE HashSeed(row), row.Seed)

\* seedrand of math/rand: x = 48271 * x mod (2^31 - 1), computed as Go does
seedrand(x) ==
  IF 48271 * (x % 44488) - 3399 * (x \div 44488) < 0
  THEN 48271 * (x % 44488) - 3399 * (x \div 44488) + 2147483647
  ELSE 48271 * (x % 44488) - 3399 * (x \div 44488)

\* rand.NewSource(seed): rngSource.Seed reduces the seed modulo 2^31 - 1 and
\* replaces 0; the state of the source is what seedrand makes of it
NewSource(seed) ==
  IF seed % 2147483647 = 0 THEN seedrand(89482311) ELSE seedrand(seed % 2147483647)

\* a mutant of DeterministicRand: one generator is shared by the calls, each
\* call finds it where the calls before left it
SharedRand(row) == NewSource(RowSeed(row) + Len(calls))

\* DeterministicRand: rand.New(rand.NewSource(RowSeed(row)))
DeterministicRand(row) == NewSource(RowSeed(row))

RECURSIVE Draw(_, _)
\* the state of a generator after n more draws
Draw(rng, n) == IF n = 0 THEN rng ELSE Draw(seedrand(rng), n - 1)

\* the n-th rng.Intn(m) of a generator created in the state rng
Intn(rng, n, m) == Draw(rng, n) % m

FakerName == [name |-> "FakerName"]
FakerEmail == [name |-> "FakerEmail"]
FakerAddress == [name |-> "FakerAddress"]
FakerPhone == [name |-> "FakerPhone"]

\* strings.ToLower(word): the word in lower case, kept as the word it is
LowerWord(word) == << "lower", word >>

FakerNameOf(rng) ==
  << firstNames[Intn(rng, 1, Len(firstNames)) + 1], " ",
     lastNames[Intn(rng, 2, Len(lastNames)) + 1] >>

FakerNameTransform(t, value, row) == Value(TextV(FakerNameOf(DeterministicRand(row))))

FakerEmailOf(rng) ==
  << LowerWord(firstNames[Intn(rng, 1, Len(firstNames)) + 1]), ".",
     LowerWord(lastNames[Intn(rng, 2, Len(lastNames)) + 1]), "@",
     emailDomains[Intn(rng, 3, Len(emailDomains)) + 1] >>

FakerEmailTransform(t, value, row) == Value(TextV(FakerEmailOf(DeterministicRand(row))))

FakerAddressOf(rng) ==
  Digits(Intn(rng, 1, 8999) + 100)
  \o << " ", streetNames[Intn(rng, 2, Len(streetNames)) + 1], " St, ",
        cityNames[Intn(rng, 3, Len(cityNames)) + 1], ", ",
        stateCodes[Intn(rng, 4, Len(stateCodes)) + 1], " " >>
  \o Digits(Intn(rng, 5, 89999) + 10000)

FakerAddressTransform(t, value, row) == Value(TextV(FakerAddressOf(DeterministicRand(row))))

FakerPhoneOf(rng) ==
  Digits(Intn(rng, 1, 800) + 200) \o << "-" >> \o Digits(Intn(rng, 2, 800) + 200)
  \o << "-" >> \o Digits(Intn(rng, 3, 9000) + 1000)

FakerPhoneTransform(t, value, row) == Value(TextV(FakerPhoneOf(DeterministicRand(row))))

\* the days DateShift shifts by when max_days is not positive
DefaultMaxDays == 30

NewDateShift(maxDays) ==
  [name |-> "DateShift", maxDays |-> IF maxDays <= 0 THEN DefaultMaxDays ELSE maxDays]

RECURSIVE Atoi(_, _)
\* the number a string of digits spells, -1 for any other string
Atoi(acc, str) ==
  IF str = << >> THEN acc
  ELSE IF Head(str) \notin {"0", "1", "2", "3", "4", "5", "6", "7", "8", "9"} THEN -1
  ELSE Atoi(10 * acc + CharCode(Head(str)) - 1, Tail(str))

\* time.Parse on the texts of the model: the text of the instant of second n
\* in the layout RFC3339 is < followed by n, the text of day n in the layout
\* 2006-01-02 is > followed by n; no other text parses
ParseTime(layout, str) ==
  IF Len(str) > 1 /\ str[1] = layout /\ Atoi(0, Tail(str)) >= 0
  THEN [ok |-> TRUE, n |-> Atoi(0, Tail(str))]
  ELSE [ok |-> FALSE, n |-> 0]

\* ts.Add(shift).Format(layout), shift in the unit of the layout
FormatTime(layout, n) == << layout >> \o Digits(n)

\* DateShift.Transform with shiftDays drawn
DateShiftBy(value, shiftDays) ==
  CASE value.k = "int" -> IntV(value.i + shiftDays * 86400)
    [] value.k = "text" /\ ParseTime("<", value.s).ok ->
         TextV(FormatTime("<", ParseTime("<", value.s).n + shiftDays * 86400))
    [] value.k = "text" /\ ~ParseTime("<", value.s).ok /\ ParseTime(">", value.s).ok ->
         TextV(FormatTime(">", ParseTime(">", value.s).n + shiftDays))
    [] OTHER -> value

DateShiftTransform(t, value, row) ==
  IF value = NULL THEN Value(NULL)
  ELSE Value(DateShiftBy(value, Intn(DeterministicRand(row), 1, t.maxDays * 2 + 1) - t.maxDays))

\* PluginTransformer of the registered plugin "rejectnil"
Plugin(name) == [name |-> name]

PluginTransform(t, value, row) == [err |-> value = NULL, val |-> value]

\* the names under which a plugin factory is registered
registry == {"rejectnil"}

\* config.TransformConfig
TransformConfig(type, maxLen, pattern, replace, value, params, map) ==
  [Type |-> type, MaxLen |-> maxLen, Pattern |-> pattern, Replace |-> replace,
   Value |-> value, Params |-> params, Map |-> map,
   LookupTable |-> "", LookupKey |-> "", LookupValue |-> ""]

\* tc with lookup_table, lookup_key and lookup_value set
Lookup(tc, table, key, value) ==
  [tc EXCEPT !.LookupTable = table, !.LookupKey = key, !.LookupValue = value]

\* strings.ToLower(cfg.Type) on the type names of the model
LowerType(type) ==
  CASE type \in {"HashSha256", "HASHSHA256"}         -> "hashsha256"
    [] type \in {"HmacSha256", "hmacSHA256", "HMACSHA256"} -> "hmacsha256"
    [] type \in {"StableTokenize", "STABLETOKENIZE"} -> "stabletokenize"
    [] type \in {"RegexReplace", "REGEXREPLACE"}     -> "regexreplace"
    [] type \in {"SetNull", "SETNULL"}               -> "setnull"
    [] type \in {"SetValue", "SETVALUE"}             -> "setvalue"
    [] type \in {"MapReplace", "MAPREPLACE"}         -> "mapreplace"
    [] type \in {"Map", "MAP"}                       -> "map"
    [] type \in {"FakerName", "FAKERNAME"}           -> "fakername"
    [] type \in {"FakerEmail", "FAKEREMAIL"}         -> "fakeremail"
    [] type \in {"FakerAddress", "FAKERADDRESS"}     -> "fakeraddress"
    [] type \in {"FakerPhone", "FAKERPHONE"}         -> "fakerphone"
    [] type \in {"DateShift", "DATESHIFT"}           -> "dateshift"
    [] type = "RejectNil"                            -> "rejectnil"
    [] OTHER                                         -> type

\* Build's max_days: 30 unless params holds an integer under max_days
MaxDaysOf(params) ==
  IF "max_days" \in DOMAIN params /\ params["max_days"].k = "int"
  THEN params["max_days"].i
  ELSE DefaultMaxDays

\* what Build returns: a transformer and a nil error
Built(tr) == [err |-> FALSE, tr |-> tr]

\* Build from the lookup key on: the registry first, then the switch
BuildKey(key, tc, salt) ==
  IF key \in registry THEN Built(Plugin(key))
  ELSE CASE key = "hashsha256"     -> Built(NewHashSha256(salt, tc.MaxLen))
         [] key = "hmacsha256"     -> Built(NewHmacSha256(salt, tc.MaxLen))
         [] key = "stabletokenize" -> Built(NewStableTokenize(tc.MaxLen))
         [] key = "regexreplace"   -> NewRegexReplace(tc.Pattern, tc.Replace)
         [] key = "setnull"        -> Built(SetNull)
         [] key = "setvalue"       -> Built(NewSetValue(tc.Value))
         [] key = "fakername"      -> Built(FakerName)
         [] key = "fakeremail"     -> Built(FakerEmail)
         [] key = "fakeraddress"   -> Built(FakerAddress)
         [] key = "fakerphone"     -> Built(FakerPhone)
         [] key = "dateshift"      -> Built(NewDateShift(MaxDaysOf(tc.Params)))
         [] key = "map"            -> Built(NewMapReplace(tc.Map))
         [] OTHER                  -> [err |-> TRUE, tr |-> << >>]

\* a mutant of Build: the type is looked up as it is spelled
BuildAsSpelled(tc, salt) == BuildKey(tc.Type, tc, salt)

\* transform.Build
Build(tc, salt) == BuildKey(LowerType(tc.Type), tc, salt)

RECURSIVE ScanLookup(_, _)
\* loadLookupMap's loop over the rows of the query, in the order they come
ScanLookup(result, rows) ==
  IF rows = << >> THEN result
  ELSE ScanLookup([key \in DOMAIN result \cup {Sprint(Head(rows).key)} |->
                     IF key = Sprint(Head(rows).key) THEN Sprint(Head(rows).val)
                     ELSE result[key]],
                  Tail(rows))

\* loadLookupMap: d holds, for each table there is, the rows the SELECT of
\* lookup_key and lookup_value returns, in the order it returns them
loadLookupMap(d, tc) ==
  IF tc.LookupTable = "" THEN [err |-> FALSE, m |-> << >>]
  ELSE IF tc.LookupKey = "" \/ tc.LookupValue = "" THEN [err |-> TRUE, m |-> << >>]
  ELSE IF tc.LookupTable \notin DOMAIN d THEN [err |-> TRUE, m |-> << >>]
  ELSE [err |-> FALSE, m |-> ScanLookup(tc.Map, d[tc.LookupTable])]

\* buildTransformerForColumn, given what loadLookupMap returned
LookupOrBuild(l, tc, salt) ==
  IF l.err THEN [err |-> TRUE, tr |-> << >>]
  ELSE IF DOMAIN l.m # {} THEN Built(NewMapReplace(l.m))
  ELSE Build(tc, salt)

\* buildTransformerForColumn
buildTransformerForColumn(d, tc, salt) ==
  IF tc.LookupTable # "" THEN LookupOrBuild(loadLookupMap(d, tc), tc, salt)
  ELSE Build(tc, salt)

\* the transformers of the package: the built-in ones are all but the plugins
BuiltinNames ==
  { "HashSha256", "HmacSha256", "StableTokenize", "RegexReplace", "SetNull", "SetValue",
    "MapReplace", "FakerName", "FakerEmail", "FakerAddress", "FakerPhone", "DateShift" }

\* t.Transform(value, row): the method of the transformer's type
TransformValue(t, value, row) ==
  CASE t.name = "HashSha256"     -> HashSha256Transform(t, value, row)
    [] t.name = "HmacSha256"     -> HmacSha256Transform(t, value, row)
    [] t.name = "StableTokenize" -> StableTokenizeTransform(t, value, row)
    [] t.name = "RegexReplace"   -> RegexReplaceTransform(t, value, row)
    [] t.name = "SetNull"        -> SetNullTransform(t, value, row)
    [] t.name = "SetValue"       -> SetValueTransform(t, value, row)
    [] t.name = "MapReplace"     -> MapReplaceTransform(t, value, row)
    [] t.name = "FakerName"      -> FakerNameTransform(t, value, row)
    [] t.name = "FakerEmail"     -> FakerEmailTransform(t, value, row)
    [] t.name = "FakerAddress"   -> FakerAddressTransform(t, value, row)
    [] t.name = "FakerPhone"     -> FakerPhoneTransform(t, value, row)
    [] t.name = "DateShift"      -> DateShiftTransform(t, value, row)
    [] OTHER                     -> PluginTransform(t, value, row)

(***************************************************************************)
(* SpecTransform: a column's transformer is built from its configuration   *)
(* and the salt of the run, and Transform is called on it, row after row;  *)
(* a later run builds it again from the same configuration and salt.       *)
(***************************************************************************)
\* most calls of Transform the model follows
MaxCalls == 2
\* most runs the model follows
MaxRuns == 2

NoParams == [name \in {} |-> NULL]
NoMap == [key \in {} |-> << >>]

\* the salts of a run; with the last one the digest RowSeed computes for
\* the row 1 of users begins with zero bytes
Salts == { << "S" >>, << "C" >>, << ">", "A", "n", "n", "|" >> }

\* the column configurations drawn: every built-in type, the lengths that
\* cut and do not cut a digest, a pattern that does not compile, a type in
\* another letter case, a registered plugin, an unknown type, and the
\* type names in capitals or small letters
TransformConfigs ==
  { TransformConfig(type, maxLen, "", << >>, NULL, NoParams, NoMap) :
      type \in {"HashSha256", "hmacSHA256", "StableTokenize"}, maxLen \in {0, 4} }
  \cup { TransformConfig("RegexReplace", 0, pattern, << "A" >>, NULL, NoParams, NoMap) :
           pattern \in {"[0-9]+", "U", "("} }
  \cup { TransformConfig(type, 0, "", << >>, I10, NoParams, NoMap) :
           type \in {"SetNull", "SetValue", "FakerName", "FakerEmail", "FakerAddress",
                     "FakerPhone", "RejectNil", "MapReplace"} }
  \cup { TransformConfig("DateShift", 0, "", << >>, NULL, params, NoMap) :
           params \in {NoParams, "max_days" :> I2, "max_days" :> IntV(0), "max_days" :> T2} }
  \cup { TransformConfig("Map", 0, "", << >>, NULL, NoParams, US.s :> CA.s) }
  \cup { TransformConfig(type, 0, "U", << "A" >>, I10, NoParams, US.s :> CA.s) :
           type \in {"hashsha256", "HMACSHA256", "stabletokenize", "REGEXREPLACE", "setnull",
                     "SETVALUE", "fakername", "FAKEREMAIL", "fakeraddress", "FAKERPHONE",
                     "dateshift", "MAP", "map", "MAPREPLACE", "mapreplace", "bogus", ""} }

\* the rows Transform is called for: Salt is the salt of the run
RowContexts(salt) ==
  { RowContext(table, << pk >>, seed, salt) :
      table \in {"users", "orders"}, pk \in {I1, I2}, seed \in {0, 7, -3} }

\* the cells Transform is called on: NULL, an integer, a text, the text of a day
CellValues == { NULL, I2, US, TextV(<< ">", "5", "0" >>) }

\* a row of the result of SELECT lookup_key, lookup_value FROM lookup_table
Pair(key, val) == [key |-> key, val |-> val]

\* the input databases as loadLookupMap sees them: the table lk, empty,
\* with a key the inline map has, with an integer key and a NULL value,
\* and with one key in two rows
NoLookup == [name \in {} |-> << >>]
LookupDatabases ==
  { "lk" :> rows :
      rows \in { << >>, << Pair(US, TA) >>, << Pair(I2, I10), Pair(TS, NULL) >>,
                 << Pair(I2, TA), Pair(I2, TS) >> } }

\* the column configurations with lookup_table set: with and without an
\* inline map, under the type Map, another built-in type and the type
\* MapReplace; without lookup_key, without lookup_value, and for a
\* table the input does not have
LookupConfigs ==
  { Lookup(TransformConfig(type, 0, "", << >>, NULL, NoParams, map), look[1], look[2], look[3]) :
      type \in {"Map", "SetNull", "MapReplace"},
      map  \in {NoMap, US.s :> CA.s},
      look \in { << "lk", "k", "v" >>, << "lk", "", "v" >>, << "lk", "k", "" >>,
                 << "zz", "k", "v" >> } }

\* buildTransformerForColumn called with tc and salt on the input d
BuildOn(d, tc, salt, b) == [db |-> d, tc |-> tc, salt |-> salt, err |-> b.err, tr |-> b.tr]
BuildOf(d, tc, salt) == BuildOn(d, tc, salt, buildTransformerForColumn(d, tc, salt))

InitTransform ==
  /\ \/ \E tc \in TransformConfigs : \E salt \in Salts : built = BuildOf(NoLookup, tc, salt)
     \/ \E tc \in LookupConfigs : \E d \in LookupDatabases : built = BuildOf(d, tc, << "S" >>)
  /\ calls = << >>
  /\ runNo = 1
  /\ schema = << >> /\ iter = << >> /\ order = << >> /\ opc = "idle"
  /\ RunIdle
  /\ ParIdle
  /\ PKIdle
  /\ FsIdle

\* tr.Transform(value, rowCtx) for a cell of a row
TransformCall ==
  /\ ~built.err
  /\ Len(calls) < MaxCalls
  /\ \E row \in RowContexts(built.salt) : \E value \in CellValues :
       calls' = Append(calls, [run |-> runNo, row |-> row, value |-> value,
                               out |-> TransformValue(built.tr, value, row)])
  /\ UNCHANGED << ordVars, runVars, parVars, fsVars, pkVars, built, runNo >>

\* the next run: copyTable builds the transformer again
BuildAgain ==
  /\ runNo < MaxRuns
  /\ built' = BuildOf(built.db, built.tc, built.salt)
  /\ runNo' = runNo + 1
  /\ UNCHANGED << ordVars, runVars, parVars, fsVars, pkVars, calls >>

NextTransform == TransformCall \/ BuildAgain

SpecTransform == InitTransform /\ [][NextTransform]_vars

(***************************************************************************)
(* SpecPKSet: a caller fills a PKSet over the columns (x, y) by calls of   *)
(* Add, passing slices it goes on writing to between the calls.            *)
(***************************************************************************)
\* the slices of the caller
MaxSlices == 2
\* the calls of Add in a run
MaxAdds == 3

\* the values the caller writes to the first and to the second element
XVals == {I2, T2, TA, TAC}
YVals == {TS, TCS}

\* a mutant of Add: the caller's slice itself is stored
AddAliased(s, h, values) ==
  IF keyFor(h[values]) \in s.Keys THEN [set |-> s, heap |-> h, ok |-> FALSE]
  ELSE [set  |-> [s EXCEPT !.Keys = @ \cup {keyFor(h[values])}, !.Values = Append(@, values)],
        heap |-> h,
        ok   |-> TRUE]

\* PKSet.Add with the slices in view: `values` names the caller's slice,
\* row is a new slice holding a copy of its elements
Add(s, h, values) ==
  IF keyFor(h[values]) \in s.Keys THEN [set |-> s, heap |-> h, ok |-> FALSE]
  ELSE [set  |-> [s EXCEPT !.Keys = @ \cup {keyFor(h[values])}, !.Values = Append(@, Len(h) + 1)],
        heap |-> Append(h, h[values]),
        ok   |-> TRUE]

InitPKSet ==
  /\ pkset = NewPKSet(<< "x", "y" >>)
  /\ \E x \in XVals : \E y \in YVals : heap = [b \in 1..MaxSlices |-> << x, y >>]
  /\ adds = << >>
  /\ schema = << >> /\ iter = << >> /\ order = << >> /\ opc = "idle"
  /\ RunIdle
  /\ ParIdle
  /\ TrIdle
  /\ FsIdle

\* the caller writes to an element of one of its slices
SliceWrite ==
  /\ \E b \in 1..MaxSlices :
       \/ \E x \in XVals \ {heap[b][1]} : heap' = [heap EXCEPT ![b][1] = x]
       \/ \E y \in YVals \ {heap[b][2]} : heap' = [heap EXCEPT ![b][2] = y]
  /\ UNCHANGED << ordVars, runVars, parVars, fsVars, trVars, pkset, adds >>

\* Add returned r for a slice that held `passed`
AddReturned(passed, r) ==
  /\ pkset' = r.set
  /\ heap' = r.heap
  /\ adds' = Append(adds, [values |-> passed, ok |-> r.ok,
                            before |-> Len(pkset.Values), after |-> Len(r.set.Values)])

\* set.Add(values) with one of the caller's slices
CallAdd ==
  /\ Len(adds) < MaxAdds
  /\ \E b \in 1..MaxSlices : AddReturned(heap[b], Add(pkset, heap, b))
  /\ UNCHANGED << ordVars, runVars, parVars, fsVars, trVars >>

NextPKSet == SliceWrite \/ CallAdd

SpecPKSet == InitPKSet /\ [][NextPKSet]_vars

(***************************************************************************)
(* Claims about the Selection and the copy.                                *)
(***************************************************************************)
\* the primary key tuple of a row, as the PKSet of its table holds it
PKOf(s, name, row) == Project(row, tablePKColumns(s.Tables[name]).cols)

\* the tuple is in Selection[name]
InSelection(sel, name, tuple) ==
  name \in DOMAIN sel /\ tuple \in SeqToSet(sel[name].Values)

\* the FK groups child(from_cols) -> parent(to_cols) between tables of the schema
FKGroupsOf(s) ==
  UNION { { [child |-> name, fk |-> g] :
              g \in { h \in SeqToSet(groupFKs(s.Tables[name])) : h.RefTable \in DOMAIN s.Tables } } :
          name \in DOMAIN s.Tables }

\* BuildSelection has just returned a Selection built from roots
Selected == pc = "schema" /\ ~selNil

\* C1: after BuildSelection returns successfully, for every FK group between
\* existing tables and every selected child row with non-null from_cols, every
\* parent row whose to_cols equal those values is selected.
C1_ParentsSelected ==
  Selected =>
    \A g \in FKGroupsOf(schema) : \A r \in db[g.child] :
      ( /\ InSelection(selection, g.child, PKOf(schema, g.child, r))
        /\ NotNull(Project(r, g.fk.FromCols)) ) =>
        \A q \in db[g.fk.RefTable] :
          Project(q, g.fk.ToCols) = Project(r, g.fk.FromCols) =>
            InSelection(selection, g.fk.RefTable, PKOf(schema, g.fk.RefTable, q))

\* C2: after BuildSelection returns successfully, for every FK group and every
\* selected parent row, every child row whose from_cols equal the parent row's
\* to_cols is selected.
C2_ChildrenSelected ==
  Selected =>
    \A g \in FKGroupsOf(schema) : \A q \in db[g.fk.RefTable] :
      InSelection(selection, g.fk.RefTable, PKOf(schema, g.fk.RefTable, q)) =>
        \A r \in db[g.child] :
          ( /\ NotNull(Project(r, g.fk.FromCols))
            /\ Project(r, g.fk.FromCols) = Project(q, g.fk.ToCols) ) =>
            InSelection(selection, g.child, PKOf(schema, g.child, r))

\* every row of the input with non-null foreign key columns has its parent row
InputConsistent(s, d) ==
  \A name \in DOMAIN s.Tables : \A r \in d[name] :
    ~FKViolated(s, s.Tables[name], r, DOMAIN s.Tables, LAMBDA parent : d[parent])

\* a full foreign-key check of the output reports no violation
OutputConsistent(s, out, created) ==
  \A name \in created : \A row \in OutRowsOf(s, out, name) :
    ~FKViolated(s, s.Tables[name], row, created, LAMBDA parent : OutRowsOf(s, out, parent))

\* C3: when FK enforcement is requested, the input is FK-consistent and Run
\* succeeds, every output row with non-null foreign key columns has its
\* parent row in the output.
C3_OutputPassesFKCheck ==
  (pc = "done" /\ ToLower(opts.FKMode) = "on" /\ InputConsistent(schema, db)) =>
    OutputConsistent(schema, output, SeqToSet(outTables))

\* C3 witness: such a run, subsetting, has succeeded and has written a row
\* that references a parent row
C3_Witness ==
  /\ pc = "done" /\ ToLower(opts.FKMode) = "on" /\ InputConsistent(schema, db) /\ ~selNil
  /\ \E name \in SeqToSet(outTables) : \E row \in OutRowsOf(schema, output, name) :
       \E n \in 1..Len(groupFKs(schema.Tables[name])) :
         NotNull(Project(row, groupFKs(schema.Tables[name])[n].FromCols))

\* the source rows inserted into a table, in insertion order
Sources(out, name) == [n \in 1..Len(out[name]) |-> out[name][n].src]

\* the input rows of a table whose primary key tuple is in the Selection
SelectedRows(s, d, sel, name) ==
  IF name \in DOMAIN sel
  THEN { r \in d[name] : PKOf(s, name, r) \in SeqToSet(sel[name].Values) }
  ELSE {}

\* C4: in a run with a Selection, the rows inserted into each included table
\* are exactly the input rows whose primary key tuple is in Selection[table],
\* each once and (no transformer being configured) with the values of the
\* input; any other table receives no rows.
C4_SelectedRowsCopied ==
  (pc \in {"post", "done"} /\ ~selNil) =>
    \A name \in DOMAIN schema.Tables :
      /\ \A m, n \in 1..Len(output[name]) : m < n => output[name][m].src # output[name][n].src
      /\ SeqToSet(Sources(output, name)) =
           IF tableIncluded(cfg, name) THEN SelectedRows(schema, db, selection, name) ELSE {}
      /\ cfg.Tables = NoTableConfig =>
           \A n \in 1..Len(output[name]) :
             output[name][n].vals = RowValues(schema.Tables[name], output[name][n].src)

\* C4 witness (S2): root users WHERE country = 'US' LIMIT 1 on two users and
\* two orders has selected one user and the order that references it, and
\* the output holds one row of each
C4_Witness ==
  /\ pc = "done"
  /\ cfg.Subset.Roots = << Root("users", "country", US, 1) >>
  /\ Cardinality(db["users"]) = 2 /\ Cardinality(db["orders"]) = 2
  /\ selection["users"].Values = << << I2 >> >>
  /\ selection["orders"].Values = << << I10 >> >>
  /\ Len(output["users"]) = 1 /\ Len(output["orders"]) = 1

\* every PKSet of old is there in new, with its tuples as a prefix
Grows(old, new) ==
  \A name \in DOMAIN old :
    /\ name \in DOMAIN new
    /\ Len(old[name].Values) <= Len(new[name].Values)
    /\ SubSeq(new[name].Values, 1, Len(old[name].Values)) = old[name].Values

\* new holds a tuple that old does not hold
Added(old, new) ==
  \E name \in DOMAIN new :
    Len(new[name].Values) > (IF name \in DOMAIN old THEN Len(old[name].Values) ELSE 0)

\* the tuples a PKSet of table `name` can ever hold: the primary keys of the
\* table's rows and the from_cols values of the rows that reference it
Candidates(s, d, name) ==
  { PKOf(s, name, r) : r \in d[name] } \cup
  UNION { { Project(r, g.fk.FromCols) : r \in d[g.child] } :
          g \in { h \in FKGroupsOf(s) : h.fk.RefTable = name } }

\* the number of tuples in all the PKSets
RECURSIVE SelectedCount(_, _)
SelectedCount(sel, names) ==
  IF names = {} THEN 0
  ELSE LET name == CHOOSE n \in names : TRUE
       IN  Len(sel[name].Values) + SelectedCount(sel, names \ {name})

\* the rounds are counted by the tuples: every round but the last added one,
\* and a PKSet holds each of finitely many candidate tuples at most once
RoundsBounded ==
  pc = "expand" =>
    /\ rounds <= SelectedCount(selection, DOMAIN selection) + (IF changed THEN 0 ELSE 1)
    /\ changed => rounds < MaxRounds
    /\ \A name \in DOMAIN selection :
         /\ SeqToSet(selection[name].Values) \subseteq Candidates(schema, db, name)
         /\ Cardinality(SeqToSet(selection[name].Values)) = Len(selection[name].Values)

\* C5: expandSelection terminates, also on cyclic and self-referencing
\* schemas: the PKSets only grow, the loop goes on to another round exactly
\* when the round added a tuple, it exits after the first round that added
\* none, and the number of rounds never exceeds the number of selected tuples
\* plus one, which the finitely many candidate tuples bound.
C5_ExpansionTerminates ==
  /\ [][pc = "expand" => Grows(selection, selection')]_vars
  /\ [][(pc = "expand" /\ changed /\ pc' = "expand") =>
          (changed' <=> Added(selection, selection'))]_vars
  /\ [][(pc = "expand" /\ ~changed) => pc' = "schema"]_vars
  /\ []RoundsBounded

\* C5 witness: on the self-referencing table, a root of one row has grown to
\* two rows and the expansion has returned
C5_Witness ==
  /\ Selected
  /\ DOMAIN schema.Tables = {"t"}
  /\ cfg.Subset.Roots[1].Limit = 1
  /\ Len(selection["t"].Values) = 2
  /\ rounds = 2

(***************************************************************************)
(* Claims about the order of the inserted rows.                            *)
(***************************************************************************)
\* the rows of a table went into the output in ascending order of the
\* source's primary key (or rowid)
Ascending(s, out, name) ==
  \A n \in 1..(Len(out[name]) - 1) :
    TupleLess(Project(out[name][n].src, buildOrderBy(s.Tables[name])),
              Project(out[name][n + 1].src, buildOrderBy(s.Tables[name])))

\* C10: for every table, with or without a subset and for any number of
\* selected tuples, also more than one chunk holds, the rows are inserted in
\* the source's ascending primary key (or rowid) order over the whole table.
C10_AscendingPKOrder ==
  \A name \in DOMAIN output : Ascending(schema, output, name)

(***************************************************************************)
(* Claims about processRowsParallel.                                       *)
(***************************************************************************)
\* C8: in processRowsParallel (jobs > 1), for every interleaving of the
\* workers, the INSERTs are executed in strictly ascending source-index
\* order, each source row at most once, and when the call returns without an
\* error every source row has been inserted exactly once.
C8_AscendingIndexOnce ==
  /\ \A k \in 1..Len(inserted) : inserted[k].index = k - 1
  /\ Len(inserted) <= Len(args.rows)
  /\ reader = "done" => Len(inserted) = Len(args.rows)

\* C8 witness: a call with two workers has returned nil after the
\* back-pressure loop ran, with every row of the result set inserted
C8_Witness ==
  /\ reader = "done"
  /\ args.jobs = 2
  /\ Len(args.rows) = MaxScan
  /\ Len(inserted) = MaxScan
  /\ inflight < MaxScan

RECURSIVE SequentialRuns(_, _, _)
\* processRowsSequential on the rows `rows` after the executions ins: the
\* executions of the calls that return nil, one for each way the
\* transformers of each row can be ranged over
SequentialNext(a, rows, ins, t) ==
  IF t.err THEN {}
  ELSE IF ExecContextFails(a, ins, t.values) THEN {}
  ELSE SequentialRuns(a, Tail(rows), Append(ins, [index |-> Len(ins), vals |-> t.values]))

SequentialRuns(a, rows, ins) ==
  IF rows = << >> THEN { ins }
  ELSE UNION { SequentialNext(a, rows, ins,
                              TransformRow(a.tbl, a.transformers, cols, Head(rows))) :
               cols \in Perms(DOMAIN a.transformers) }

\* C9: for a run that succeeds, the sequence of transformed rows inserted
\* with jobs = N > 1 is identical to the sequence inserted with jobs = 1.
C9_SameAsSequential ==
  reader = "done" =>
    \A run \in SequentialRuns(args, args.rows, << >>) : inserted = run

C12_SeedIndependent ==
  \A i, j \in DOMAIN calls :
    (/\ built.tr.name \in {"HashSha256", "HmacSha256", "StableTokenize"}
     /\ calls[i].value = calls[j].value) => calls[i].out = calls[j].out

\* an HMAC was computed for one value under two seeds, tables and keys
C12_Witness ==
  \E i, j \in DOMAIN calls :
    /\ built.tr.name = "HmacSha256"
    /\ calls[i].value = calls[j].value
    /\ calls[i].value # NULL
    /\ calls[i].row.Seed # calls[j].row.Seed
    /\ calls[i].row.Table # calls[j].row.Table
    /\ calls[i].row.PK # calls[j].row.PK
    /\ calls[i].out = calls[j].out

(***************************************************************************)
(* Claims about the rows the copy writes.                                  *)
(***************************************************************************)
\* the configured column names of a table that are declared columns of it
Declared(tbl, trs) == \A col \in DOMAIN trs : col \in SeqToSet(tbl.Columns)

\* C13: the transformed row does not depend on the order in which the
\* table's configured column transformers are applied: every row the
\* parallel path inserted is the row that every order of the entries yields.
C13_OrderIndependent ==
  \A k \in DOMAIN inserted :
    \A cols \in Perms(DOMAIN args.transformers) :
      TransformRow(args.tbl, args.transformers, cols,
                   args.rows[inserted[k].index + 1]).values = inserted[k].vals

\* C14: when a row is copied, only the cells of columns that have a configured
\* transformer entry are replaced; every other cell is inserted with the value
\* it has in the source, whether or not each configured name is a declared column.
C14_OtherCellsUnchanged ==
  \A name \in DOMAIN output :
    \A k \in DOMAIN output[name] :
      \A n \in DOMAIN schema.Tables[name].Columns :
        (\/ name \notin DOMAIN cfg.Tables
         \/ schema.Tables[name].Columns[n] \notin DOMAIN cfg.Tables[name].Columns)
        => output[name][k].vals[n] = output[name][k].src[schema.Tables[name].Columns[n]]

(***************************************************************************)
(* Claims about the errors Run returns.                                    *)
(***************************************************************************)
\* the errors of the configuration: a transformer that cannot be built
\* (unknown type, invalid pattern, incomplete lookup), a missing root table
ConfigErrors == {"build transformer", "subset root table not found"}

\* C15: every configuration error makes Run fail before any write to the
\* output: when the error is returned no table has been created and no row
\* has been inserted in the output.
C15_ConfigErrorBeforeWrite ==
  (pc = "failed" /\ err.msg \in ConfigErrors) =>
    /\ outTables = << >>
    /\ \A name \in DOMAIN output : output[name] = << >>

\* C16: when a per-row transform error or an insert error occurs while
\* copying a table, the data transaction is rolled back: after Run returned
\* the error, the output holds none of the rows inserted during the failed
\* table copy.
C16_FailedCopyRolledBack ==
  (pc = "failed" /\ err.msg \in {"transform", "insert"}) => output[err.table] = << >>

\* C17: a transformer failure is reported as an error with the table name and
\* the column name attached, also on the parallel path: the error
\* processRowsParallel returns for it, which Run returns as it is.
C17_TransformErrorNamed ==
  (reader = "failed" /\ ret.msg # "insert") =>
    /\ ret.table = args.tbl.Name
    /\ ret.column \in DOMAIN args.transformers

(***************************************************************************)
(* Claims about the writer of the parallel path.                           *)
(***************************************************************************)
\* the results of failed transformers that are on their way to the reader
FailedResults ==
  { workers[w].res : w \in { v \in DOMAIN workers : workers[v].pc = "send" /\ workers[v].res.err } }
  \cup { resultsCh[n] : n \in { m \in DOMAIN resultsCh : resultsCh[m].err } }

\* C18: in the parallel path the rows inserted are at every moment exactly
\* the source indexes 0..nextIndex-1; once a transformer has failed on the row
\* of index k no row of index >= k is inserted, and no INSERT is executed
\* after the reader has received the failure.
C18_PrefixUntilFailure ==
  /\ [](/\ Len(inserted) = nextIndex
        /\ \A k \in DOMAIN inserted : inserted[k].index = k - 1)
  /\ [](\A r \in FailedResults : \A k \in DOMAIN inserted : inserted[k].index < r.index)
  /\ [][reader = "failed" => inserted' = inserted]_vars

\* the reader returned a transformer's failure after it had inserted rows,
\* while the result of a later row waits in `pending`
C18_Witness ==
  /\ reader = "failed" /\ ret = PluginError
  /\ Len(inserted) > 0
  /\ \E i \in DOMAIN pending : i > nextIndex

(***************************************************************************)
(* Claims about the stages of Run.                                         *)
(***************************************************************************)
\* the errors of createPostDataSchema
PostErrors == {"create view", "create index", "create trigger"}

\* the output holds at least one row
HasRows == \E name \in DOMAIN output : output[name] # << >>

\* C19: when creating a view, index or trigger fails, the whole post-data
\* transaction is rolled back, no post-data object of the run exists in the
\* output, and the tables and rows written before stay as they are.
C19_PostDataRolledBack ==
  /\ []((pc = "failed" /\ err.msg \in PostErrors) => post = << >>)
  /\ [][pc = "post" => (outTables' = outTables /\ output' = output)]_vars

\* an index could not be created after the view had been executed in the
\* same transaction; tables and rows are in the output
C19_Witness ==
  /\ pc = "failed" /\ err.msg = "create index"
  /\ Len(schema.Views) > 0 /\ CreateFails(schema.Indexes[1], SeqToSet(outTables))
  /\ outTables # << >> /\ HasRows

\* the place of a kind of object in createPostDataSchema
KindRank(type) == CASE type = "view" -> 1 [] type = "index" -> 2 [] OTHER -> 3

\* the rows of `after` that `before` does not hold
MoreRows(before, after) ==
  \E name \in DOMAIN after :
    Len(after[name]) > (IF name \in DOMAIN before THEN Len(before[name]) ELSE 0)

\* C20: in every run all CREATE TABLE statements are committed before the
\* first data row is inserted, all data rows are inserted before the first
\* view, index or trigger is created, and the post-data objects are created
\* in the order views, indexes, triggers, each kind in name order.
C20_StagesInOrder ==
  /\ [][MoreRows(output, output') =>
          /\ outTables = SelectSeq(order, LAMBDA name : tableIncluded(cfg, name))
          /\ outTables' = outTables
          /\ post = << >> /\ post' = << >>]_vars
  /\ [][outTables' # outTables => ~HasRows /\ post = << >>]_vars
  /\ [][post' # post => ti > Len(order) /\ output' = output /\ outTables' = outTables]_vars
  /\ [](\A i, j \in DOMAIN post :
          i < j => \/ KindRank(post[i].Type) < KindRank(post[j].Type)
                   \/ /\ post[i].Type = post[j].Type
                      /\ NameLess(post[i].Name, post[j].Name))

\* a run ended with rows in two tables, a view, two indexes and a trigger
C20_Witness ==
  /\ pc = "done"
  /\ Cardinality({ name \in DOMAIN output : output[name] # << >> }) > 1
  /\ Cardinality({ n \in DOMAIN post : post[n].Type = "index" }) > 1
  /\ \E n \in DOMAIN post : post[n].Type = "view"
  /\ \E n \in DOMAIN post : post[n].Type = "trigger"

(***************************************************************************)
(* Claims about what Run replays and which tables it takes.                *)
(***************************************************************************)
\* the spellings of "on"
IsOn(str) == str \in {"on", "On", "oN", "ON"}

\* item is one of the post-data objects of the output
Replayed(item) == \E k \in DOMAIN post : post[k] = item

\* C21: a run that succeeds replays the triggers of the input iff the
\* triggers option is "on" in any letter case, and replays the views and
\* the indexes that have a CREATE statement whatever the option says.
C21_TriggersIffOn ==
  pc = "done" =>
    /\ \A n \in DOMAIN schema.Triggers :
         schema.Triggers[n].SQL # << >> => (Replayed(schema.Triggers[n]) <=> IsOn(opts.Triggers))
    /\ \A n \in DOMAIN schema.Views :
         schema.Views[n].SQL # << >> => Replayed(schema.Views[n])
    /\ \A n \in DOMAIN schema.Indexes :
         schema.Indexes[n].SQL # << >> => Replayed(schema.Indexes[n])

\* a run with the option spelled ON ended with the index and the trigger
C21_Witness ==
  /\ pc = "done" /\ opts.Triggers = "ON"
  /\ \E n \in DOMAIN schema.Triggers : Replayed(schema.Triggers[n])
  /\ \E n \in DOMAIN schema.Indexes : Replayed(schema.Indexes[n])

\* name matches at least one of the patterns
MatchesSome(patterns, name) == \E n \in DOMAIN patterns : PathMatch(patterns[n], name)

\* C22: tableIncluded holds for a table iff the include list is empty or one
\* of its patterns matches the name, and no exclude pattern matches it; a
\* table for which it does not hold is neither created nor copied.
C22_IncludedOnly ==
  \A name \in DOMAIN schema.Tables :
    /\ tableIncluded(cfg, name) <=>
         /\ cfg.IncludeTables = << >> \/ MatchesSome(cfg.IncludeTables, name)
         /\ ~MatchesSome(cfg.ExcludeTables, name)
    /\ ~tableIncluded(cfg, name) =>
         /\ name \notin SeqToSet(outTables)
         /\ name \in DOMAIN output => output[name] = << >>

\* a run ended that left out a table with rows, by an exclude pattern,
\* and copied the rows of another
C22_Witness ==
  /\ pc = "done"
  /\ \E name \in DOMAIN schema.Tables :
       /\ MatchesSome(cfg.ExcludeTables, name)
       /\ db[name] # {}
       /\ name \notin SeqToSet(outTables)
  /\ HasRows

(***************************************************************************)
(* Claims about Build.                                                     *)
(***************************************************************************)
\* the spellings of a transformer name the configurations use
Spellings ==
  [name \in BuiltinNames |->
     CASE name = "HashSha256"     -> {"HashSha256", "HASHSHA256", "hashsha256"}
       [] name = "HmacSha256"     -> {"HmacSha256", "hmacSHA256", "HMACSHA256"}
       [] name = "StableTokenize" -> {"StableTokenize", "stabletokenize"}
       [] name = "RegexReplace"   -> {"RegexReplace", "REGEXREPLACE"}
       [] name = "SetNull"        -> {"SetNull", "setnull"}
       [] name = "SetValue"       -> {"SetValue", "SETVALUE"}
       [] name = "MapReplace"     -> {"MapReplace", "MAPREPLACE", "mapreplace"}
       [] name = "FakerName"      -> {"FakerName", "fakername"}
       [] name = "FakerEmail"     -> {"FakerEmail", "FAKEREMAIL"}
       [] name = "FakerAddress"   -> {"FakerAddress", "fakeraddress"}
       [] name = "FakerPhone"     -> {"FakerPhone", "FAKERPHONE"}
       [] OTHER                   -> {"DateShift", "dateshift"}]

\* the type keys Build knows: the names, but Map for MapReplace
TypeKeys == [Spellings EXCEPT !["MapReplace"] = {"Map", "MAP", "map"}]

\* the plugin types registered
Registered == {"RejectNil"}

\* Build resolved the types of keys[name] to the transformer called name,
\* RegexReplace with a pattern that does not compile excepted, and failed
\* for every other type that is not registered
Resolves(keys) ==
  /\ \A name \in DOMAIN keys :
       built.tc.Type \in keys[name] =>
         IF name = "RegexReplace" /\ Compile(built.tc.Pattern).err THEN built.err
         ELSE ~built.err /\ built.tr.name = name
  /\ built.tc.Type \notin Registered \cup UNION { keys[name] : name \in DOMAIN keys } => built.err

\* the column's transformer came from transform.Build: no lookup table is
\* configured for the column
ByBuild == built # << >> /\ built.tc.LookupTable = ""

\* C23 as stated: every built-in name of the list, MapReplace among them,
\* resolves through Build in any letter case to the transformer of that
\* name; any other type that is not registered fails.
C23_NamesResolve == ByBuild => Resolves(Spellings)

\* C23 amended: the same with the type key Map in the place of MapReplace;
\* the type MapReplace is unknown to Build and fails.
C23_TypeKeysResolve == ByBuild => Resolves(TypeKeys)

\* Build returned a MapReplace for the type MAP, and a cell went through it
C23_Witness ==
  /\ built # << >> /\ built.tc.Type = "MAP"
  /\ ~built.err /\ built.tr.name = "MapReplace"
  /\ \E i \in DOMAIN calls : calls[i].value = US /\ calls[i].out.val = CA

(***************************************************************************)
(* Claims about the schema of the output.                                  *)
(***************************************************************************)
\* TableOrder restricted to the included tables
IncludedInOrder ==
  SelectSeq(TableOrder(schema, iter), LAMBDA name : tableIncluded(cfg, name))

\* C24: the CREATE TABLE statements executed on the output are, in this
\* order, the CREATE statements of the input for the tables of TableOrder
\* that are included, so every included table is in the output with the
\* definition it has in the input; before createSchema none is executed.
C24_CreateTablesInOrder ==
  IF ti = 0 THEN ddl = << >>
  ELSE /\ Len(ddl) = Len(IncludedInOrder)
       /\ \A n \in DOMAIN ddl : ddl[n] = schema.Tables[IncludedInOrder[n]].SQL
       /\ \A name \in DOMAIN schema.Tables :
            tableIncluded(cfg, name) =>
              /\ name \in SeqToSet(outTables)
              /\ \E n \in DOMAIN ddl : ddl[n] = schema.Tables[name].SQL

\* a run ended that created a parent before its child, against the order
\* of their names
C24_Witness ==
  /\ pc = "done"
  /\ \E n \in DOMAIN ddl : \E m \in DOMAIN ddl :
       n < m /\ NameLess(TableOf(ddl[m]), TableOf(ddl[n]))

(***************************************************************************)
(* Claims about PKSet.                                                     *)
(***************************************************************************)
\* the tuples of the PKSet as they are read now
StoredTuples == [n \in DOMAIN pkset.Values |-> heap[pkset.Values[n]]]

\* the calls of Add that passed a key no earlier call had passed
FirstCalls == { n \in DOMAIN adds : \A m \in 1..(n - 1) : keyFor(adds[m].values) # keyFor(adds[n].values) }

\* C25: after any sequence of Add calls, Values holds one tuple per
\* distinct textual key, in the order the keys were first passed and with
\* the values passed then, whatever the caller wrote to its slices since;
\* len(Keys) = len(Values); Add returns true iff it appended a tuple.
C25_OneTuplePerKey ==
  pkset # << >> =>
    /\ Len(StoredTuples) = Cardinality(FirstCalls)
    /\ \A n \in FirstCalls :
         StoredTuples[Cardinality({ m \in FirstCalls : m <= n })] = adds[n].values
    /\ Cardinality(pkset.Keys) = Len(pkset.Values)
    /\ pkset.Keys = { keyFor(adds[n].values) : n \in DOMAIN adds }
    /\ \A n \in DOMAIN adds :
         /\ adds[n].ok <=> adds[n].after = adds[n].before + 1
         /\ ~adds[n].ok <=> adds[n].after = adds[n].before
         /\ adds[n].ok <=> n \in FirstCalls

\* a key was passed twice, a tuple was added after it, and the caller has
\* written to the slice it passed first
C25_Witness ==
  /\ Len(adds) = 3 /\ adds[1].ok /\ ~adds[2].ok /\ adds[3].ok
  /\ \A b \in 1..MaxSlices : heap[b] # adds[1].values

\* copyData is running: Run is between createSchema and createPostDataSchema
Copying == pc \in {"copy", "chunk", "cursor"}

\* C26: the Selection is frozen once copying begins: no step of copyData
\* or copyTable changes the membership or the tuple order of a PKSet.
C26_SelectionFrozen == [][Copying => selection' = selection]_vars

\* C27: for tuples of one arity, Add returns false only when a tuple with
\* the same values is already stored, so two different tuples are never
\* merged into one.
C27_DistinctTuplesKept ==
  \A n \in DOMAIN adds :
    ~adds[n].ok => \E m \in 1..(n - 1) : adds[m].ok /\ adds[m].values = adds[n].values

(***************************************************************************)
(* Claims about the seed of a row.                                         *)
(***************************************************************************)
\* C28: RowSeed returns s0 XOR RowContext.seed, s0 being the first bytes
\* of the hash read as a big-endian signed integer; for s0 = 0 that is
\* RowContext.seed itself.
C28_SeedIsHashXorSeed ==
  \A i \in DOMAIN calls :
    RowSeed(calls[i].row) = Xor64(HashSeed(calls[i].row), calls[i].row.Seed)

(***************************************************************************)
(* Claims about the lookup table of a column.                              *)
(***************************************************************************)
\* the rows of the lookup table of the column built
LookupRows == SeqToSet(built.db[built.tc.LookupTable])

\* m is the inline map overlaid by the pairs of the lookup table
Overlaid(m) ==
  /\ DOMAIN m = DOMAIN built.tc.Map \cup { Sprint(r.key) : r \in LookupRows }
  /\ \A key \in DOMAIN m :
       IF \E r \in LookupRows : Sprint(r.key) = key
       THEN \E r \in LookupRows : Sprint(r.key) = key /\ m[key] = Sprint(r.val)
       ELSE m[key] = built.tc.Map[key]

\* C29: for a column with lookup_table set, the transformer is a
\* MapReplace whose mapping is the inline map overlaid by the (key, value)
\* pairs of the lookup table; without lookup_key or without lookup_value
\* building it is a configuration error.
C29_LookupOverlay ==
  (built # << >> /\ built.tc.LookupTable \in DOMAIN built.db) =>
    IF built.tc.LookupKey = "" \/ built.tc.LookupValue = "" THEN built.err
    ELSE ~built.err /\ built.tr.name = "MapReplace" /\ Overlaid(built.tr.m)

(***************************************************************************)
(* Claims about a subset without roots.                                    *)
(***************************************************************************)
\* Run called BuildSelection
SubsetRequested == opts.Subset \/ ~cfg.Subset.nil

\* C30: when subsetting is requested but the Selection holds no PKSet (no
\* roots are configured), no table is skipped as not selected: every
\* included table is copied in full.
C30_NoRootsCopiesAll ==
  (pc \in {"post", "done"} /\ SubsetRequested /\ DOMAIN selection = {}) =>
    \A name \in DOMAIN schema.Tables :
      tableIncluded(cfg, name) => SeqToSet(Sources(output, name)) = db[name]

(***************************************************************************)
(* Claims about foreign keys that reference columns other than the         *)
(* parent's primary key.                                                   *)
(***************************************************************************)
\* the FK groups of s whose to_cols are not the primary key columns of the
\* referenced table, as (child, group) pairs
NonPKGroups(s) ==
  { << name, fk >> \in UNION { {name} \X SeqToSet(groupFKs(s.Tables[name])) :
                                  name \in DOMAIN s.Tables } :
      /\ fk.RefTable \in DOMAIN s.Tables
      /\ ~sameColumnOrder(tablePKColumns(s.Tables[fk.RefTable]).cols, fk.ToCols) }

\* every table of s has primary key columns to select by
AllKeyed(s) == \A name \in DOMAIN s.Tables : ~tablePKColumns(s.Tables[name]).err

\* BuildSelection built the roots and went on to expandSelection
Expanding == rounds > 0

\* C31: for an FK group whose to_cols are not the parent's PKSet columns
\* (an FK to a UNIQUE column that is not the primary key), the expansion
\* resolves the parents by a SELECT of their primary keys and
\* BuildSelection completes without an error.
C31_NonPKRefCompletes ==
  (Expanding /\ AllKeyed(schema) /\ NonPKGroups(schema) # {}) => pc # "failed"

(***************************************************************************)
(* Claims about the back-pressure of processRowsParallel.                  *)
(***************************************************************************)
\* C32: in processRowsParallel inflight never exceeds 2 * jobs + 1, and the
\* reader never scans the next source row while inflight exceeds 2 * jobs.
C32_InflightBounded ==
  /\ inflight <= (2 * args.jobs) + 1
  /\ reader = "scan" => inflight <= 2 * args.jobs

\* the reader was held back with 2 * jobs + 1 rows in flight, received a
\* result and went on to scan
C32_Witness ==
  /\ reader = "scan"
  /\ index = (2 * args.jobs) + 1
  /\ inflight = 2 * args.jobs

(***************************************************************************)
(* Claims about the termination of processRowsParallel.                    *)
(***************************************************************************)
\* the calling goroutine has returned from processRowsParallel
Returned == reader \in {"done", "failed"}

\* the reader is past the loop over the rows
PastRows(r) == r \in {"drain", "done", "failed"}

\* what is left to do: every step of the reader or of a worker makes it less
ReaderRank == CASE reader = "gate" -> 3 [] reader = "scan" -> 2 [] reader = "drain" -> 1
                [] OTHER -> 0

Cardinal(S) == Cardinality(S)

Remaining ==
  (5 * Len(unread)) + (3 * Len(jobsCh)) + Len(resultsCh) + ReaderRank
  + (2 * Cardinal({ w \in DOMAIN workers : workers[w].pc = "send" }))
  + Cardinal({ w \in DOMAIN workers : workers[w].pc # "exit" })

\* the reader waits: on `jobsCh <- job` with the buffer full, or on
\* `<-resultsCh` with the buffer empty
ReaderBlocked ==
  \/ reader = "scan" /\ unread # << >> /\ Len(jobsCh) >= Capacity(args.jobs)
  \/ reader = "gate" /\ Backpressure(inflight, args.jobs) /\ resultsCh = << >>
  \/ reader = "drain" /\ drain < inflight /\ resultsCh = << >>

\* worker w waits: on `range jobsCh` with the channel empty and open, or on
\* `resultsCh <- result` with the buffer full
WorkerBlocked(w) ==
  \/ workers[w].pc = "recv" /\ jobsCh = << >> /\ ~jobsClosed
  \/ workers[w].pc = "send" /\ Len(resultsCh) >= Capacity(args.jobs)

\* some goroutine of the call waits and none can move: a deadlock while
\* the reader is in the call, a leak once it has returned
Stuck ==
  /\ ReaderBlocked \/ Returned
  /\ \A w \in DOMAIN workers : WorkerBlocked(w) \/ workers[w].pc = "exit"
  /\ ReaderBlocked \/ \E w \in DOMAIN workers : WorkerBlocked(w)

\* C33: processRowsParallel neither deadlocks nor leaks a goroutine: on
\* every path (success, scan error, transform error, insert error) the
\* function returns and every worker terminates - the goroutines that have
\* not finished never all wait, and every step leaves less to do - and
\* jobsCh is closed exactly once, with no send after the close.
C33_ReturnsAndWorkersEnd ==
  /\ []~Stuck
  /\ [](jobsClosed <=> PastRows(reader))
  /\ [][/\ Remaining' < Remaining
        /\ jobsClosed => jobsClosed' /\ (jobsCh' = jobsCh \/ (jobsCh # << >> /\ jobsCh' = Tail(jobsCh)))
        /\ ~PastRows(reader) /\ PastRows(reader') => ~jobsClosed /\ jobsClosed']_vars

\* the reader returned an error while a worker still held a result, and
\* the worker went on to leave its loop
C33_Witness ==
  /\ reader = "failed"
  /\ resultsCh # << >>
  /\ \A w \in DOMAIN workers : workers[w].pc = "exit"

\* the rows read from the source and not yet inserted: jobs queued or at
\* a worker, results queued, results kept in pending
Outstanding == index - nextIndex

\* C36: in processRowsParallel the number of rows read from the source but
\* not yet inserted is bounded by a constant multiple of jobs - the
\* 2 * jobs + 1 rows the back-pressure lets be in flight - independent of
\* the table size and of how slow a worker is.
C36_OutstandingBounded == Outstanding <= (2 * args.jobs) + 1

(***************************************************************************)
(* Claims about TableOrder on FK graphs with cycles.                       *)
(***************************************************************************)
\* the tables that are on a cycle of references (a self-reference included)
OnCycle(s) == { name \in DOMAIN s.Tables : name \in Reach(s, Parents(s, name)) }

\* every table of S comes after the tables it references
AfterParents(S) ==
  \A child \in S : \A parent \in Parents(schema, child) :
    /\ child \in SeqToSet(order) /\ parent \in SeqToSet(order)
    /\ Position(order, parent) < Position(order, child)

\* C34: in TableOrder's result a table that is not itself on an FK cycle
\* appears after every table it references, also when other tables form a
\* cycle or reference themselves: a child of a self-referencing table comes
\* after that table.
C34_OffCycleAfterParents ==
  opc = "ret" => AfterParents(DOMAIN schema.Tables \ OnCycle(schema))

\* the tables emitted before the step that emits the n-th table
Emitted(n) == { order[m] : m \in 1..(n - 1) }

\* the table has not been emitted and every table it references has
Ready(done, name) == name \notin done /\ Parents(schema, name) \subseteq done

\* the n-th table is the smallest of the tables that are ready at its step,
\* if any is
SmallestReady(n) ==
  \A x \in DOMAIN schema.Tables :
    Ready(Emitted(n), x) =>
      /\ Ready(Emitted(n), order[n])
      /\ order[n] = x \/ NameLess(order[n], x)

\* the tables referenced by the foreign key rows of a table, row by row
RefsOf(s, name) == [n \in 1..Len(s.Tables[name].ForeignKeys) |-> s.Tables[name].ForeignKeys[n].Table]

\* the schema with the same tables and FK edges, the foreign key rows of
\* each table catalogued in the order of the referenced names
Recatalogued(s) ==
  [s EXCEPT !.Tables = [name \in DOMAIN s.Tables |-> GraphTable(name, SortStrings(RefsOf(s, name)))]]

\* the result is the same for every order in which the tables are ranged
\* over and for the other order of the foreign key rows
SameForAll ==
  \A names \in Perms(DOMAIN schema.Tables) :
    /\ TableOrder(schema, names) = order
    /\ TableOrder(Recatalogued(schema), names) = order

\* C35: TableOrder depends only on the set of tables and the FK edges, not
\* on the map iteration order: the result is the same however the maps are
\* ranged over, and at every step of Kahn's loop the table emitted is the
\* lexicographically smallest one all of whose referenced tables have
\* already been emitted.
C35_SmallestReadyInLoop ==
  opc = "ret" =>
    /\ SameForAll
    /\ \A n \in 1..Cardinality(OnNoCycle(schema)) :
         Ready(Emitted(n), order[n]) /\ SmallestReady(n)

\* S5: a, b -> a, c -> b, ranged over from c to a, has been ordered a, b, c
C35_Witness ==
  /\ opc = "ret"
  /\ iter = << "c", "b", "a" >>
  /\ Parents(schema, "a") = {} /\ Parents(schema, "b") = {"a"} /\ Parents(schema, "c") = {"b"}
  /\ order = << "a", "b", "c" >>

(***************************************************************************)
(* Claims about the Selection BuildSelection returns.                      *)
(***************************************************************************)
\* BuildSelection has returned a Selection to Run
SelectionReturned == ~selNil /\ pc \in {"schema", "copy", "chunk", "cursor", "post", "done"}

\* the tuple is the primary key of a row the table holds in the input
KeyOfRow(d, sel, name, tuple) == \E r \in d[name] : Project(r, sel[name].Cols) = tuple

\* C37: every tuple in every PKSet of the Selection returned by
\* BuildSelection is the primary key of a row that exists in that table of
\* the input, also when child rows hold foreign key values that match no
\* parent row.
C37_SelectedKeysExist ==
  SelectionReturned =>
    \A name \in DOMAIN selection : \A n \in 1..Len(selection[name].Values) :
      KeyOfRow(db, selection, name, selection[name].Values[n])

\* the rows of the input, each with the name of its table
AllRows(d) == UNION { {name} \X d[name] : name \in DOMAIN d }

\* the row x references the row y: a foreign key group of x's table leads
\* to y's table and x's non-NULL from_cols are y's to_cols
References(s, x, y) ==
  \E fk \in SeqToSet(groupFKs(s.Tables[x[1]])) :
    /\ fk.RefTable = y[1]
    /\ NotNull(Project(x[2], fk.FromCols))
    /\ Project(x[2], fk.FromCols) = Project(y[2], fk.ToCols)

RECURSIVE Connected(_, _, _)
\* the rows connected to a row of S by a chain of FK links, either way
Connected(s, d, S) ==
  LET more == S \cup { y \in AllRows(d) :
                         \E x \in S : References(s, x, y) \/ References(s, y, x) }
  IN  IF more = S THEN S ELSE Connected(s, d, more)

\* the rows the roots of the configuration select
RootRows(s, d, roots) ==
  { x \in AllRows(d) :
      \E n \in 1..Len(roots) :
        /\ roots[n].Table = x[1]
        /\ Project(x[2], tablePKColumns(s.Tables[x[1]]).cols)
             \in SeqToSet(RootQuery(d, s.Tables[x[1]], roots[n])) }

\* the tuple is the key of a row of the table that is among rows
KeyAmong(rows, sel, name, tuple) ==
  \E x \in rows : x[1] = name /\ Project(x[2], sel[name].Cols) = tuple

\* C38: the Selection is the least FK-closed set that contains the roots: a
\* primary key tuple is in the PKSet of a table only if its row is a root
\* row or is connected to a root row by a chain of FK links, and a table has
\* a non-empty PKSet only if it is reachable from a root.
C38_OnlyConnectedSelected ==
  SelectionReturned =>
    \A name \in DOMAIN selection : \A n \in 1..Len(selection[name].Values) :
      KeyAmong(Connected(schema, db, RootRows(schema, db, cfg.Subset.Roots)),
               selection, name, selection[name].Values[n])

(***************************************************************************)
(* Claims about post-data objects of tables that are left out.             *)
(***************************************************************************)
\* the indexes and triggers of the input that have a CREATE statement
TableItems(s) == { item \in SeqToSet(s.Indexes \o s.Triggers) : item.SQL # << >> }

\* C39: every index and trigger replayed by createPostDataSchema belongs to
\* a table created in the output: when the include/exclude patterns leave a
\* table out, its indexes and triggers are not replayed and the run does not
\* fail because of them.
C39_ItemsOfCreatedTables ==
  /\ \A k \in DOMAIN post : post[k].Type # "view" => TableOf(post[k].SQL) \in SeqToSet(outTables)
  /\ (\E item \in TableItems(schema) : ~tableIncluded(cfg, TableOf(item.SQL))) =>
       ~(pc = "failed" /\ err.msg \in {"create index", "create trigger"})

(***************************************************************************)
(* SpecPaths: the beginning of copy.Run on a file system, up to the first  *)
(* statements on the two connections.  A path holds nothing ("absent"), a  *)
(* directory ("dir"), a database file that was there before the run        *)
(* ("db"), or a database file the run created ("new").                     *)
(***************************************************************************)
\* the paths of the file system; d is the parent of d/in.db and d/out.db
PathNames == {"in.db", "out.db", "d", "d/in.db", "d/out.db"}

\* filepath.Dir
Dir(path) == CASE path \in {"d/in.db", "d/out.db"} -> "d" [] OTHER -> "."

\* the path is root or lies in the directory root
Under(root, path) == path = root \/ Dir(path) = root

\* os.RemoveAll: the path and everything it contains is removed; a path
\* that does not exist is no error
RemoveAll(f, path) == [p \in DOMAIN f |-> IF Under(path, p) THEN "absent" ELSE f[p]]

\* the first statement on a connection opens the file of its DSN, which has
\* no mode: a missing file is created, a directory or a missing parent
\* directory is an error
OpenFile(f, path) ==
  IF f[path] = "dir" \/ (Dir(path) # "." /\ f[Dir(path)] # "dir") THEN [err |-> TRUE, files |-> f]
  ELSE [err |-> FALSE, files |-> IF f[path] = "absent" THEN [f EXCEPT ![path] = "new"] ELSE f]

\* the file systems Run starts on: files in a directory need the directory
FileSystems ==
  { f \in [PathNames -> {"absent", "dir", "db"}] :
      /\ \A p \in PathNames \ {"d"} : f[p] # "dir"
      /\ \A p \in PathNames : Dir(p) = "d" /\ f[p] # "absent" => f["d"] = "dir" }

\* what Run leaves alone before it loads the schema
runRest == << db, cfg, selection, selNil, changed, rounds, outTables, ddl, output, ti,
              pendingChunks, cursor, transformers, post >>

InitPaths ==
  /\ \E in \in PathNames \cup {""} : \E out \in PathNames \cup {""} :
       \E fk \in {"on", "sometimes"} :
         opts = [InPath |-> in, OutPath |-> out, FKMode |-> fk]
  /\ files \in FileSystems
  /\ pc = "paths" /\ pragma = "unset" /\ err = NoError
  /\ db = << >> /\ cfg = << >>
  /\ selection = << >> /\ selNil = TRUE /\ changed = FALSE /\ rounds = 0
  /\ outTables = << >> /\ ddl = << >> /\ output = << >> /\ ti = 0
  /\ pendingChunks = << >> /\ cursor = << >> /\ transformers = << >> /\ post = << >>
  /\ schema = << >> /\ iter = << >> /\ order = << >> /\ opc = "idle"
  /\ ParIdle
  /\ TrIdle
  /\ PKIdle

\* `if opts.InPath == "" || opts.OutPath == ""`
RunCheckPaths ==
  /\ pc = "paths"
  /\ IF opts.InPath = "" \/ opts.OutPath = ""
     THEN Fail(Errorf("input and output paths are required", "", ""))
     ELSE pc' = "remove" /\ GoOn
  /\ UNCHANGED << ordVars, parVars, trVars, pkVars, runRest, opts, pragma, files >>

\* os.RemoveAll(opts.OutPath)
RunRemoveOutput ==
  /\ pc = "remove"
  /\ files' = RemoveAll(files, opts.OutPath)
  /\ pc' = "mkdir"
  /\ GoOn
  /\ UNCHANGED << ordVars, parVars, trVars, pkVars, runRest, opts, pragma >>

\* os.MkdirAll(filepath.Dir(opts.OutPath), 0o755)
RunMkdirAll ==
  /\ pc = "mkdir"
  /\ IF Dir(opts.OutPath) = "." \/ files[Dir(opts.OutPath)] = "dir"
     THEN pc' = "open" /\ GoOn /\ UNCHANGED files
     ELSE IF files[Dir(opts.OutPath)] = "absent"
     THEN pc' = "open" /\ GoOn /\ files' = [files EXCEPT ![Dir(opts.OutPath)] = "dir"]
     ELSE Fail(Errorf("create output dir", "", "")) /\ UNCHANGED files
  /\ UNCHANGED << ordVars, parVars, trVars, pkVars, runRest, opts, pragma >>

\* Run after the output connection created its file, which nothing is in
\* the way of by now, and the input connection opened the input: in
Opened(in) ==
  /\ pragma' = setFKMode(opts.FKMode).fk
  /\ files' = in.files
  /\ IF in.err THEN Fail(Errorf("load schema", "", "")) ELSE pc' = "loaded" /\ GoOn

\* sql.Open twice, setFKMode on the output, schema.Load on the input
RunOpen ==
  /\ pc = "open"
  /\ IF setFKMode(opts.FKMode).err
     THEN Fail(Errorf("invalid fk mode", "", "")) /\ UNCHANGED << files, pragma >>
     ELSE Opened(OpenFile(OpenFile(files, opts.OutPath).files, opts.InPath))
  /\ UNCHANGED << ordVars, parVars, trVars, pkVars, runRest, opts >>

NextPaths ==
  \/ RunCheckPaths
  \/ RunRemoveOutput
  \/ RunMkdirAll
  \/ RunOpen

SpecPaths == InitPaths /\ [][NextPaths]_vars

(***************************************************************************)
(* Claims about the files Run touches.                                     *)
(***************************************************************************)
\* C40: Run never deletes or modifies the input database file, for every
\* pair of input and output paths, also when both name the same file: only
\* a file that was at the output path before the run and is not the input
\* is removed.
C40_InputUntouched ==
  [][/\ (opts.InPath \in DOMAIN files /\ files[opts.InPath] = "db") => files'[opts.InPath] = "db"
     /\ \A p \in DOMAIN files :
          (files[p] # "absent" /\ files'[p] = "absent") => p = opts.OutPath /\ p # opts.InPath]_vars

=============================================================================
